---- MODULE Spec2Model ----
(***************************************************************************)
(* Trade lifecycle and risk management engine of tradewin.                 *)
(*                                                                         *)
(* Units.  Prices, stops, ATR, pnl and margins are integers counting       *)
(* thousandths of a rupee, so that round(x, 2) is a real conversion (to a  *)
(* multiple of 10).  Decimal factors of the code (0.5, 0.3, 1.8, ...) are  *)
(* applied exactly, by cross-multiplication.  Times are integers counting  *)
(* seconds since midnight of day 0, exchange-local; all datetimes are      *)
(* taken to be time-zone aware, as the drivers produce them.               *)
(*                                                                         *)
(* An optional value (None or a value) is the empty or the one-element     *)
(* sequence.  Each object is one record whose fields are the attributes of *)
(* the Python object; each method is an operator from the object (and the  *)
(* method's arguments) to the object after the call.                       *)
(***************************************************************************)
EXTENDS Integers, Sequences, FiniteSets, TLC

VARIABLES
    mode,     \* which object the run exercises: "TM", "EX" or "BT"
    tm,       \* the TradeManager object
    ex,       \* the TradeExecutor object (with its TradeState)
    bt,       \* the driver: the loop state of Backtester.run and the wall clock
              \* of the run, or the live driver's place in its loop and its clock
    twin,     \* a second replay of the same rows (its manager and Backtester)
    feed,     \* the frame the live feed has delivered so far, oldest bar first
    steps,    \* number of operations performed so far
    lastOp    \* the operation performed by the last step, with its pre-state

vars == <<mode, tm, ex, bt, twin, feed, steps, lastOp>>

----------------------------------------------------------------------------
\* Bounds of the model.

MaxSteps == 4

----------------------------------------------------------------------------
\* Values.

None == <<>>

Some(v) == <<v>>

IsSet(o) == o # <<>>

Val(o) == o[1]

\* x rupees, in thousandths
R(x) == x * 1000

Abs(x) == IF x < 0 THEN -x ELSE x

Max(a, b) == IF a >= b THEN a ELSE b

Min(a, b) == IF a <= b THEN a ELSE b

\* a plausible slip: the value is stored unrounded
Round2_skipped(x) == x

\* round(x, 2): to the nearest hundredth, a tie going to the even hundredth
Round2(x) ==
    LET q == x \div 10
        r == x % 10
    IN  IF r < 5 THEN q * 10
        ELSE IF r > 5 THEN (q + 1) * 10
        ELSE IF q % 2 = 0 THEN q * 10 ELSE (q + 1) * 10

\* timedelta.seconds of a difference of d seconds: the days are dropped
Seconds(d) == d % 86400

\* config.TRADE_QTY
TRADE_QTY == 25

\* config.COOLDOWN_MINUTES
COOLDOWN_MINUTES == 15

CooldownSeconds == COOLDOWN_MINUTES * 60

----------------------------------------------------------------------------
\* TradeManager (TradeManager.py)

TradeManager(margins, paper) ==
    [ margins |-> margins, lots |-> 1, PAPER_TRADING |-> paper,
      last_exit_time |-> None, trade_date |-> None, position |-> "None",
      entry_price |-> 0, stop_loss |-> 0, target_price |-> 0,
      entry_time |-> None, open_trade |-> FALSE, strategy |-> "None",
      current_trade_id |-> None, last_sl_update_time |-> None,
      last_exit_price |-> None, atr |-> 0, atr_multiplier |-> 6,
      atr_history |-> <<>>,
      db_handler |-> <<>>,   \* rows of the trades table, oldest first
      sink |-> "up",         \* the database connection: "up"; "rejecting" (execute
                             \* raises, rollback works); "down" (both raise)
      raised |-> FALSE,      \* an exception has left a method of the manager
      kite |-> <<>>,         \* orders sent to the broker, oldest first
      uuid |-> 0 ]           \* number of trade ids drawn so far

\* the row built for the record sink (exittime, symbol and meta_data.source left out)
_prepare_trade_data(self, trade_date, trade_type, entry_price, stop_loss, exited, notes, exit_price, trade_id) ==
    [ trade_id |-> trade_id, time |-> trade_date, type |-> trade_type,
      price |-> Round2(entry_price), sl |-> Round2(stop_loss), exited |-> exited,
      pnl |-> 0, strategy |-> self.strategy, notes |-> notes,
      exitprice |-> Round2(exit_price), lots |-> self.lots ]

\* DBHandler.record_trade: the insert is committed; or it raises and the
\* handler rolls back and logs; or the rollback in the handler raises as well
_record_trade(self, trade_data) ==
    IF self.sink = "up" THEN [self EXCEPT !.db_handler = Append(@, trade_data)]
    ELSE IF self.sink = "rejecting" THEN self
    ELSE [self EXCEPT !.raised = TRUE]

\* max(1, int(margins // 250000)), capped at 100
max_allowed_lots(margins) ==
    LET byMargin == Max(1, margins \div R(250000))
    IN  IF byMargin > 100 THEN 100 ELSE byMargin

\* sorted(xs)[len(xs) // 2]
RECURSIVE SortedInsert(_, _)
SortedInsert(s, x) ==
    IF s = <<>> THEN <<x>>
    ELSE IF x <= Head(s) THEN <<x>> \o s
    ELSE <<Head(s)>> \o SortedInsert(Tail(s), x)

RECURSIVE Sorted(_)
Sorted(s) == IF s = <<>> THEN <<>> ELSE SortedInsert(Sorted(Tail(s)), Head(s))

Median(s) == Sorted(s)[(Len(s) \div 2) + 1]

\* a plausible slip: the wide multiplier whatever the ATR
_adjust_dynamic_sl_target_wide(self) ==
    [self EXCEPT !.atr_history = Append(@, self.atr),
                 !.atr_multiplier = 7,
                 !.target_price = IF self.position = "SELL"
                                  THEN self.entry_price - (25 * self.atr) \div 10
                                  ELSE self.entry_price + (25 * self.atr) \div 10]

_adjust_dynamic_sl_target(self) ==
    LET hist == Append(self.atr_history, self.atr)
        median_atr == Median(hist)
        low == self.atr < median_atr
        mult == IF low THEN 18 ELSE 25
        dist == (mult * self.atr) \div 10
    IN  [self EXCEPT !.atr_history = hist,
                     !.atr_multiplier = IF low THEN 5 ELSE 7,
                     !.target_price = IF self.position = "SELL"
                                      THEN self.entry_price - dist
                                      ELSE self.entry_price + dist]

\* the same-zone re-entry guard of place_order
SameZoneTooSoon(self, trade_date, price) ==
    /\ IsSet(self.last_exit_time)
    /\ 2 * Abs(price - Val(self.last_exit_price)) < self.atr
    /\ Seconds(trade_date - Val(self.last_exit_time)) < 900

\* a plausible slip: the open-trade guard is lost
trade_already_open_never(self) == FALSE

\* "if self.open_trade: ... return" of place_order
trade_already_open(self) == self.open_trade

place_order(self, trade_date, action, price, stoploss, strategy, lots, now) ==
    IF trade_already_open(self) THEN self
    ELSE
      LET allowed == max_allowed_lots(self.margins)
          lots1 == IF lots > allowed THEN allowed ELSE lots
      IN  IF SameZoneTooSoon(self, trade_date, price) THEN self
          ELSE
            LET s1 == [self EXCEPT !.trade_date = Some(trade_date),
                                   !.position = action,
                                   !.entry_price = Round2(price),
                                   !.stop_loss = Round2(stoploss),
                                   !.lots = lots1,
                                   !.strategy = strategy,
                                   !.entry_time = Some(now),
                                   !.open_trade = TRUE,
                                   !.current_trade_id = Some(self.uuid + 1),
                                   !.uuid = self.uuid + 1,
                                   !.atr = IF self.atr = 0 THEN R(20) ELSE self.atr]
                s2 == _adjust_dynamic_sl_target(s1)
                s3 == _record_trade(s2, _prepare_trade_data(s2, trade_date, action,
                                        s2.entry_price, s2.stop_loss, FALSE,
                                        "Order placed", 0, s2.current_trade_id))
            IN  IF s3.raised \/ s3.PAPER_TRADING THEN s3
                ELSE [s3 EXCEPT !.kite = Append(@, [side |-> action,
                                                    quantity |-> TRADE_QTY * s3.lots,
                                                    order_type |-> "SLM"])]

\* a plausible slip: one flat charge for both directions
charges_same(position) == R(250)

\* "charges = 250 if self.position == "BUY" else 100"
charges(position) == IF position = "BUY" THEN R(250) ELSE R(100)

\* With no trade open trade_date is None: margins and last_exit_price are
\* assigned, then _prepare_trade_data's trade_date.isoformat() raises.
exit_trade(self, price) ==
    LET raw_pnl == IF self.position = "BUY"
                   THEN (price - self.entry_price) * TRADE_QTY * self.lots
                   ELSE (self.entry_price - price) * TRADE_QTY * self.lots
        pnl == Round2(raw_pnl - charges(self.position))
        s1 == [self EXCEPT !.margins = @ + pnl, !.last_exit_price = Some(price)]
        data == [_prepare_trade_data(s1, Val(s1.trade_date), s1.position, s1.entry_price,
                                     s1.stop_loss, TRUE, "Trade exited", price,
                                     s1.current_trade_id) EXCEPT !.pnl = Round2(pnl)]
        s2 == _record_trade(s1, data)
    IN  IF ~IsSet(s1.trade_date) THEN [s1 EXCEPT !.raised = TRUE]
        ELSE IF s2.raised THEN s2
        ELSE
        [s2 EXCEPT !.last_exit_time = s2.trade_date,
                   !.current_trade_id = None,
                   !.trade_date = None,
                   !.position = "None",
                   !.open_trade = FALSE,
                   !.entry_price = 0,
                   !.stop_loss = 0]

\* a plausible slip: the end of the cooldown interval is included
in_cooldown_inclusive(self, current_time, now) ==
    IF ~IsSet(self.last_exit_time) THEN FALSE
    ELSE LET t == IF IsSet(current_time) THEN Val(current_time) ELSE now
         IN  t - Val(self.last_exit_time) <= CooldownSeconds

\* current_time None stands for datetime.now(), here `now`
in_cooldown(self, current_time, now) ==
    IF ~IsSet(self.last_exit_time) THEN FALSE
    ELSE LET t == IF IsSet(current_time) THEN Val(current_time) ELSE now
         IN  t - Val(self.last_exit_time) < CooldownSeconds

\* a plausible slip: the direction guards are lost, any changed candidate is applied
_maybe_update_sl_unguarded(self, trade_date, new_sl, current_price) ==
    LET new_sl_rounded == Round2(new_sl)
        s1 == [self EXCEPT !.last_sl_update_time = Some(trade_date)]
    IN  IF new_sl_rounded = s1.stop_loss \/ Abs(new_sl_rounded - s1.stop_loss) < 10 THEN s1
        ELSE LET s2 == [s1 EXCEPT !.stop_loss = new_sl_rounded]
             IN  _record_trade(s2, _prepare_trade_data(s2, trade_date, s2.position,
                                       s2.entry_price, s2.stop_loss, FALSE,
                                       "SL adjusted", 0, None))

\* a plausible slip: an applied stop is not written to the record sink
_maybe_update_sl_silent(self, trade_date, new_sl, current_price) ==
    LET new_sl_rounded == Round2(new_sl)
        s1 == [self EXCEPT !.last_sl_update_time = Some(trade_date)]
    IN  IF new_sl_rounded = s1.stop_loss \/ Abs(new_sl_rounded - s1.stop_loss) < 10 THEN s1
        ELSE IF s1.position = "BUY" /\ new_sl_rounded <= s1.stop_loss THEN s1
        ELSE IF s1.position = "SELL" /\ new_sl_rounded >= s1.stop_loss THEN s1
        ELSE [s1 EXCEPT !.stop_loss = new_sl_rounded]

_maybe_update_sl(self, trade_date, new_sl, current_price) ==
    LET new_sl_rounded == Round2(new_sl)
        s1 == [self EXCEPT !.last_sl_update_time = Some(trade_date)]
    IN  IF new_sl_rounded = s1.stop_loss \/ Abs(new_sl_rounded - s1.stop_loss) < 10 THEN s1
        ELSE IF s1.position = "BUY" /\ new_sl_rounded <= s1.stop_loss THEN s1
        ELSE IF s1.position = "SELL" /\ new_sl_rounded >= s1.stop_loss THEN s1
        ELSE LET s2 == [s1 EXCEPT !.stop_loss = new_sl_rounded]
             IN  _record_trade(s2, _prepare_trade_data(s2, trade_date, s2.position,
                                       s2.entry_price, s2.stop_loss, FALSE,
                                       "SL adjusted", 0, None))

\* atr * atr_multiplier, the multiplier being kept in tenths
AtrTimesMultiplier(self) == (self.atr * self.atr_multiplier) \div 10

_handle_buy_trailing_sl(self, trade_date, current_price) ==
    LET target_dist == Abs(self.target_price - self.entry_price)
        move == current_price - self.entry_price
        age_seconds == Seconds(trade_date - Val(self.entry_time))
        fallback_sl == current_price - (IF age_seconds > 1800 THEN R(50) ELSE self.atr)
        new_sl == current_price - AtrTimesMultiplier(self)
    IN  IF 10 * move < 3 * target_dist \/ move < self.atr THEN self
        ELSE IF move >= self.atr THEN _maybe_update_sl(self, trade_date, new_sl, current_price)
        ELSE IF new_sl >= self.stop_loss
             THEN (IF new_sl # 0 THEN _maybe_update_sl(self, trade_date, new_sl, current_price)
                   ELSE self)
        ELSE IF fallback_sl > self.stop_loss /\ age_seconds > 600 /\ fallback_sl # 0
             THEN _maybe_update_sl(self, trade_date, fallback_sl, current_price)
        ELSE self

_handle_sell_trailing_sl(self, trade_date, current_price) ==
    LET target_dist == Abs(self.entry_price - self.target_price)
        move == self.entry_price - current_price
        age_seconds == Seconds(trade_date - Val(self.entry_time))
        fallback_sl == current_price + (IF age_seconds > 1800 THEN R(50) ELSE self.atr)
        new_sl == current_price + AtrTimesMultiplier(self)
    IN  IF 10 * move < 3 * target_dist \/ move < self.atr THEN self
        ELSE IF move >= self.atr THEN _maybe_update_sl(self, trade_date, new_sl, current_price)
        ELSE IF new_sl <= self.stop_loss
             THEN (IF new_sl # 0 THEN _maybe_update_sl(self, trade_date, new_sl, current_price)
                   ELSE self)
        ELSE IF fallback_sl < self.stop_loss /\ age_seconds > 600 /\ fallback_sl # 0
             THEN _maybe_update_sl(self, trade_date, fallback_sl, current_price)
        ELSE self

\* a plausible slip: the near-target tightening is lost, the directional trail
\* runs on every bar past the age gate
check_trailing_sl_no_tightening(self, trade_date, current_price) ==
    IF Seconds(trade_date - Val(self.entry_time)) < 120 THEN self
    ELSE IF self.position = "BUY" THEN _handle_buy_trailing_sl(self, trade_date, current_price)
    ELSE IF self.position = "SELL" THEN _handle_sell_trailing_sl(self, trade_date, current_price)
    ELSE self

\* called only while a trade is open (entry_time is set)
check_trailing_sl(self, trade_date, current_price) ==
    LET age_seconds == Seconds(trade_date - Val(self.entry_time))
        near_target == 2 * Abs(current_price - self.target_price) <= self.atr
        tight_sl == IF self.position = "BUY" THEN current_price - R(10)
                    ELSE current_price + R(10)
    IN  IF age_seconds < 120 THEN self
        ELSE IF near_target THEN _maybe_update_sl(self, trade_date, tight_sl, current_price)
        ELSE IF self.position = "BUY" THEN _handle_buy_trailing_sl(self, trade_date, current_price)
        ELSE IF self.position = "SELL" THEN _handle_sell_trailing_sl(self, trade_date, current_price)
        ELSE self

\* a plausible slip: the cutoff exit does not look at open_trade
exit_with_reason_unguarded(self, price) == exit_trade(self, price)

exit_with_reason(self, price) ==
    IF ~self.open_trade THEN self
    ELSE LET s1 == IF self.PAPER_TRADING THEN self
                   ELSE [self EXCEPT !.kite = Append(@,
                            [side |-> IF self.position = "BUY" THEN "SELL" ELSE "BUY",
                             quantity |-> TRADE_QTY * self.lots,
                             order_type |-> "MARKET"])]
         IN  exit_trade(s1, price)

\* a plausible slip: reaching the target is an exit
should_exit_price_at_target(self, high, low, price, trade_time) ==
    IF IsSet(trade_time) /\ Seconds(Val(trade_time) - Val(self.entry_time)) < 60
    THEN [exit |-> FALSE, reason |-> "Trade just placed"]
    ELSE IF self.position = "BUY" /\ price <= self.stop_loss
    THEN [exit |-> TRUE, reason |-> "Stop-loss hit."]
    ELSE IF self.position = "SELL" /\ price >= self.stop_loss
    THEN [exit |-> TRUE, reason |-> "Stop-loss hit."]
    ELSE IF price >= self.target_price /\ self.position = "BUY"
    THEN [exit |-> TRUE, reason |-> "Target hit BUY."]
    ELSE IF price <= self.target_price /\ self.position = "SELL"
    THEN [exit |-> TRUE, reason |-> "Target hit SELL."]
    ELSE [exit |-> FALSE, reason |-> ""]

\* should_exit_price: the exit flag and the reason
should_exit_price(self, high, low, price, trade_time) ==
    IF IsSet(trade_time) /\ Seconds(Val(trade_time) - Val(self.entry_time)) < 60
    THEN [exit |-> FALSE, reason |-> "Trade just placed"]
    ELSE IF self.position = "BUY" /\ low > self.stop_loss /\ high >= self.target_price
    THEN [exit |-> FALSE, reason |-> "Profit zone"]
    ELSE IF self.position = "BUY" /\ price <= self.stop_loss
    THEN [exit |-> TRUE, reason |-> "Stop-loss hit."]
    ELSE IF self.position = "SELL" /\ price >= self.stop_loss
    THEN [exit |-> TRUE, reason |-> "Stop-loss hit."]
    ELSE IF price >= self.target_price /\ self.position = "BUY"
    THEN [exit |-> FALSE, reason |-> "Target hit BUY."]
    ELSE IF price <= self.target_price /\ self.position = "SELL"
    THEN [exit |-> FALSE, reason |-> "Target hit SELL."]
    ELSE [exit |-> FALSE, reason |-> ""]

\* datetime.now().time() >= dtime(15, 25), WEEKEND_TESTING off
reached_cutoff_time(now) == now % (24 * 3600) >= (15 * 60 + 25) * 60

SetMax(S) == CHOOSE x \in S : \A y \in S : y <= x

SetMin(S) == CHOOSE x \in S : \A y \in S : x <= y

\* df.iloc[-6:]
Recent(frame) == { frame[i] : i \in (Len(frame) - 5)..Len(frame) }

RECURSIVE SumRange(_, _)
SumRange(frame, i) ==
    IF i > Len(frame) THEN 0
    ELSE frame[i].high - frame[i].low + SumRange(frame, i + 1)

\* _check_stall_exit; with no bar dated at or after entry_time the peak is NaN
\* and both comparisons are false
_check_stall_exit(self, frame) ==
    IF Len(frame) < 6 THEN FALSE
    ELSE
      LET sum_range == SumRange(frame, Len(frame) - 5)
          current_price == frame[Len(frame)].close
          since == { frame[i] : i \in { j \in DOMAIN frame :
                                          frame[j].date >= Val(self.entry_time) } }
          peak_price == IF self.position = "SELL"
                        THEN SetMin({ b.low : b \in since })
                        ELSE SetMax({ b.high : b \in since })
          retrace == IF self.position = "SELL" THEN current_price - peak_price
                     ELSE peak_price - current_price
          move_from_entry == IF self.position = "SELL" THEN self.entry_price - peak_price
                             ELSE peak_price - self.entry_price
      IN  /\ since # {}
          /\ \/ 2 * move_from_entry >= 5 * self.atr /\ 4 * sum_range < 6 * self.atr
             \/ move_from_entry >= 2 * self.atr /\ 2 * retrace > move_from_entry

\* _check_sideways_stall_exit
_check_sideways_stall_exit(self, frame) ==
    IF Len(frame) < 6 \/ ~IsSet(self.entry_time) THEN FALSE
    ELSE
      LET closes == { b.close : b \in Recent(frame) }
          band_range == SetMax(closes) - SetMin(closes)
          current_price == frame[Len(frame)].close
      IN  /\ band_range < R(15)
          /\ ~(self.position = "BUY" /\ 2 * (current_price - self.entry_price) > self.atr)

\* one pass of the loop of monitor_trade over the frame get_data returned
\* (None, or shorter than 15 bars: the pass is skipped); a bar's ATR is what
\* calculate_atr gives for the frame ending at it, 0 standing for no value.
\* The result is the manager and what the pass did.
monitor_pass(self, frame, now) ==
    IF ~IsSet(frame) THEN [tm |-> self, did |-> "no data"]
    ELSE
      LET last == Val(frame)[Len(Val(frame))]
          price == Round2(last.close)
          high == Round2(last.high)
          low == Round2(last.low)
          trade_date == last.date
          m == [self EXCEPT !.atr = IF last.ATR # 0 THEN last.ATR ELSE @]
          verdict == should_exit_price(m, high, low, price, Some(trade_date))
      IN  IF m.last_sl_update_time = Some(trade_date)
          THEN [tm |-> m, did |-> "settle"]
          ELSE IF reached_cutoff_time(now)
          THEN [tm |-> exit_with_reason(m, price), did |-> "cutoff"]
          ELSE IF verdict.exit
          THEN [tm |-> exit_with_reason(m, price), did |-> verdict.reason]
          ELSE IF _check_sideways_stall_exit(m, Val(frame))
          THEN [tm |-> exit_with_reason(m, price), did |-> "sideways stall"]
          ELSE IF _check_stall_exit(m, Val(frame))
          THEN [tm |-> exit_with_reason(m, price), did |-> "stall"]
          ELSE [tm |-> check_trailing_sl(m, trade_date, price), did |-> "trail"]

----------------------------------------------------------------------------
\* TradeExecutor, TradeState (trade_manager_refactored.py), SLManager, TradeLogger

\* TradeState after reset()
TradeState ==
    [ trade_direction |-> "None", position |-> "None", stop_loss |-> 0,
      entry_price |-> 0, target_price |-> 0, entry_time |-> None,
      open_trade |-> FALSE, strategy |-> "None", trade_id |-> None,
      last_exit_price |-> None, last_exit_time |-> None,
      last_sl_update_time |-> None, date |-> None, qty |-> 0,
      trade_type |-> "None" ]

\* a plausible slip: reset() forgets the position
reset_keeps_position(state) == [TradeState EXCEPT !.position = state.position]

\* TradeState.reset
\* a plausible slip: reset forgets the open_trade flag
reset_keeps_open(state) == [TradeState EXCEPT !.open_trade = state.open_trade]

reset(state) == TradeState

TradeExecutor(paper) ==
    [ state |-> TradeState, PAPER_TRADING |-> paper, atr |-> 0,
      atr_history |-> <<>>, margins |-> R(250000), lots |-> 1,
      last_exit_time |-> None, last_exit_price |-> None,
      db |-> <<>>,      \* rows of the trades table, oldest first
      kite |-> <<>>,    \* orders sent to the broker, oldest first
      ids |-> 0 ]       \* number of trade ids generated so far

\* TradeLogger.prepare_trade_data (exittime, symbol and meta_data.source left out)
prepare_trade_data(state, exit_price, pnl, exited, now) ==
    [ trade_id |-> state.trade_id,
      time |-> IF IsSet(state.entry_time) THEN Val(state.entry_time) ELSE now,
      type |-> state.position, price |-> Round2(state.entry_price),
      sl |-> Round2(state.stop_loss), exited |-> exited, pnl |-> Round2(pnl),
      strategy |-> state.strategy,
      notes |-> IF exited THEN "Exited" ELSE "Order placed",
      exitprice |-> Round2(exit_price), lots |-> 1 ]

\* DBHandler.record_trade
record_trade(self, trade_data) == [self EXCEPT !.db = Append(@, trade_data)]

\* TradeWinUtils.generate_id: a token no earlier trade carries
generate_id(self) == self.ids + 1

_adjust_target_price(self, action) ==
    LET atr == IF self.atr = 0 THEN R(20) ELSE self.atr
        hist == Append(self.atr_history, atr)
        median_atr == Median(hist)
        multiplier == IF atr < median_atr THEN 18 ELSE 25
        dist == (multiplier * atr) \div 10
    IN  [self EXCEPT !.atr_history = hist,
                     !.state.target_price = IF action = "BUY"
                                            THEN self.state.entry_price + dist
                                            ELSE self.state.entry_price - dist]

_update_trade_state(self, date, action, price, stoploss, strategy, lots, now) ==
    LET s1 == [self EXCEPT !.state.trade_id = Some(generate_id(self)),
                           !.ids = generate_id(self),
                           !.state.entry_time = Some(now),
                           !.state.position = action,
                           !.state.entry_price = Round2(price),
                           !.state.stop_loss = Round2(stoploss),
                           !.state.strategy = strategy,
                           !.state.open_trade = TRUE,
                           !.state.last_sl_update_time = None]
        s2 == _adjust_target_price(s1, action)
    IN  [s2 EXCEPT !.state.date = Some(date),
                   !.lots = lots,
                   !.state.qty = TRADE_QTY * lots,
                   !.state.trade_type = action]

_place_kite_order(self, action) ==
    [self EXCEPT !.kite = Append(@, [side |-> action,
                                     quantity |-> TRADE_QTY * self.lots,
                                     order_type |-> "SLM"])]

ex_place_order(self, trade_date, action, price, stoploss, strategy, lots, now) ==
    LET s0 == [self EXCEPT !.state.trade_direction = action,
                           !.state.entry_price = price,
                           !.state.stop_loss = stoploss,
                           !.state.strategy = strategy]
    IN  IF s0.state.open_trade THEN s0
        ELSE LET s1 == _update_trade_state(s0, trade_date, action, price, stoploss,
                                           strategy, lots, now)
                 s2 == record_trade(s1, prepare_trade_data(s1.state, 0, 0, FALSE, now))
             IN  IF s2.PAPER_TRADING THEN s2 ELSE _place_kite_order(s2, action)

RECURSIVE MulDivMod(_, _, _)
\* <<(a * b) div d, (a * b) mod d>> for a, b >= 0 and d > 0, never forming a * b
MulDivMod(a, b, d) ==
    IF b = 0 THEN <<0, 0>>
    ELSE LET h == MulDivMod(a, b \div 2, d)
             q2 == 2 * h[1] + (2 * h[2]) \div d
             r2 == (2 * h[2]) % d
         IN  IF b % 2 = 0 THEN <<q2, r2>>
             ELSE <<q2 + (a \div d) + ((r2 + (a % d)) \div d), (r2 + (a % d)) % d>>

\* the sum of two quantities <<whole, millionths>>
AddMicro(x, y) == <<x[1] + y[1] + ((x[2] + y[2]) \div 1000000), (x[2] + y[2]) % 1000000>>

\* total_charges of _calculate_pnl, as <<whole thousandths, millionths of one>>
total_charges(entry, exit_price, qty, trade_type) ==
    LET sum == entry + exit_price      \* turnover = sum * qty
        \* brokerage + gst = 1.18 * 2 * min(20, 0.0003 * turnover);
        \* 0.0003 * turnover < 20 rupees iff 3 * sum * qty < 200000000
        brok_gst == IF qty = 0 \/ sum <= 199999999 \div (3 * qty)
                    THEN MulDivMod(sum, 708 * qty, 1000000)
                    ELSE <<47200, 0>>
        stt == IF trade_type = "SELL" THEN MulDivMod(exit_price, 250 * qty, 1000000)
               ELSE <<0, 0>>
        sebi == MulDivMod(sum, qty, 1000000)
        stamp == IF trade_type = "BUY" THEN MulDivMod(entry, 30 * qty, 1000000)
                 ELSE <<0, 0>>
    IN  AddMicro(AddMicro(brok_gst, stt), AddMicro(sebi, stamp))

_calculate_pnl(self, exit_price) ==
    LET entry == self.state.entry_price
        qty == self.state.qty
        gross_pnl == IF self.state.trade_direction = "SELL"
                     THEN (entry - exit_price) * qty
                     ELSE (exit_price - entry) * qty
        ch == total_charges(entry, exit_price, qty, self.state.trade_type)
        \* net_pnl = whole - ch[2] / 1000000
        whole == gross_pnl - ch[1]
    IN  IF ch[2] = 0 THEN Round2(whole)
        ELSE IF (whole - 1) % 10 <= 4 THEN ((whole - 1) \div 10) * 10
        ELSE ((whole - 1) \div 10) * 10 + 10

_update_exit_state(self, price, now) ==
    LET s1 == [self EXCEPT !.state.last_exit_price = Some(price),
                           !.state.last_exit_time = Some(now)]
    IN  [s1 EXCEPT !.state = reset(s1.state)]

\* a plausible slip: the no-open-trade guard is lost
no_trade_to_exit_never(self) == FALSE

\* "if not self.state.open_trade: ... return" of exit_trade
no_trade_to_exit(self) == ~self.state.open_trade

ex_exit_trade(self, price, now) ==
    IF no_trade_to_exit(self) THEN self
    ELSE LET pnl == _calculate_pnl(self, price)
             s1 == [self EXCEPT !.margins = @ + pnl]
             s2 == record_trade(s1, prepare_trade_data(s1.state, price, pnl, TRUE, now))
         IN  _update_exit_state(s2, price, now)

\* TradeExecutor.in_cooldown; now None stands for datetime.now(), here `wall`
ex_in_cooldown(self, now, wall) ==
    IF ~IsSet(self.state.last_exit_time) THEN FALSE
    ELSE LET t == IF IsSet(now) THEN Val(now) ELSE wall
         IN  t - Val(self.state.last_exit_time) < CooldownSeconds

\* SLManager._age_seconds
_age_seconds(state, trade_date) ==
    IF ~IsSet(state.entry_time) THEN 0 ELSE trade_date - Val(state.entry_time)

\* SLManager._maybe_update_sl
sl_maybe_update_sl(self, trade_date, new_sl0, price) ==
    LET new_sl == Round2(new_sl0)
        state == self.state
    IN  IF Abs(new_sl - state.stop_loss) < 10 THEN self
        ELSE IF state.position = "BUY" /\ new_sl <= state.stop_loss THEN self
        ELSE IF state.position = "SELL" /\ new_sl >= state.stop_loss THEN self
        ELSE LET s1 == [self EXCEPT !.state.stop_loss = new_sl,
                                    !.state.last_sl_update_time = Some(trade_date)]
             IN  record_trade(s1, [ trade_id |-> state.trade_id, time |-> trade_date,
                                    type |-> state.position,
                                    price |-> Round2(state.entry_price), sl |-> new_sl,
                                    exited |-> FALSE, pnl |-> 0,
                                    strategy |-> state.strategy, notes |-> "SL Trailed",
                                    exitprice |-> 0, lots |-> 1 ])

\* a plausible slip: the fallback candidate is never tried
_handle_buy_sl_primary_only(self, trade_date, price, atr) ==
    LET state == self.state
        new_sl == price - (6 * atr) \div 10
    IN  IF price - state.entry_price >= atr /\ new_sl > state.stop_loss /\ new_sl # 0
        THEN sl_maybe_update_sl(self, trade_date, new_sl, price)
        ELSE self

_handle_buy_sl(self, trade_date, price, atr) ==
    LET state == self.state
        move == price - state.entry_price
        fallback_sl == price - (IF _age_seconds(state, trade_date) > 1800
                                THEN Min(R(50), atr) ELSE atr)
        new_sl == price - (6 * atr) \div 10
    IN  IF move >= atr
        THEN IF new_sl > state.stop_loss
             THEN (IF new_sl # 0 THEN sl_maybe_update_sl(self, trade_date, new_sl, price)
                   ELSE self)
             ELSE IF fallback_sl > state.stop_loss /\ fallback_sl # 0
             THEN sl_maybe_update_sl(self, trade_date, fallback_sl, price)
             ELSE self
        ELSE self

_handle_sell_sl(self, trade_date, price, atr) ==
    LET state == self.state
        move == state.entry_price - price
        fallback_sl == price + (IF _age_seconds(state, trade_date) > 1800
                                THEN Min(R(50), atr) ELSE atr)
        new_sl == price + (6 * atr) \div 10
    IN  IF move >= atr
        THEN IF new_sl < state.stop_loss
             THEN (IF new_sl # 0 THEN sl_maybe_update_sl(self, trade_date, new_sl, price)
                   ELSE self)
             ELSE IF fallback_sl < state.stop_loss /\ fallback_sl # 0
             THEN sl_maybe_update_sl(self, trade_date, fallback_sl, price)
             ELSE self
        ELSE self

\* SLManager.check_and_update_sl
check_and_update_sl(self, trade_date, current_price, atr) ==
    LET state == self.state
        age_seconds == _age_seconds(state, trade_date)
        near_target == 4 * Abs(current_price - state.target_price) <= atr
        new_sl == IF state.position = "BUY" THEN current_price - R(30)
                  ELSE current_price + R(30)
    IN  IF age_seconds < 120 THEN self
        ELSE IF near_target THEN sl_maybe_update_sl(self, trade_date, new_sl, current_price)
        ELSE IF state.position = "BUY" THEN _handle_buy_sl(self, trade_date, current_price, atr)
        ELSE IF state.position = "SELL" THEN _handle_sell_sl(self, trade_date, current_price, atr)
        ELSE self

\* TradeExecutor.check_trailing_sl
ex_check_trailing_sl(self, trade_date, current_price) ==
    IF ~self.state.open_trade THEN self
    ELSE check_and_update_sl(self, trade_date, current_price, self.atr)

----------------------------------------------------------------------------
\* Backtester (backtester.py)

\* row['date'].time() and row['date'].date()
TimeOfDay(t) == t % (24 * 3600)

DateOf(t) == t \div (24 * 3600)

\* time(9, 30) and time(15, 25)
SessionStart == (9 * 60 + 30) * 60

SessionEnd == (15 * 60 + 25) * 60

\* the loop state of Backtester.run; wall is datetime.now() during the run,
\* clock the date of the last row handled (rows come in time order), and
\* closed_at a history field: the date of the row on which the run last
\* closed a position
Backtester(wall) ==
    [lots |-> 1, trades_today |-> 0, last_trade_day |-> None, clock |-> None,
     wall |-> wall, closed_at |-> None]

\* lines 64-68: the per-day trade counter
run_new_day(self, row) ==
    IF Some(DateOf(row.date)) # self.last_trade_day
    THEN [self EXCEPT !.trades_today = 0, !.last_trade_day = Some(DateOf(row.date))]
    ELSE self

\* a plausible slip: the session window is not tested
out_of_session_never(row) == FALSE

\* "if current_time < time(9, 30) or current_time > time(15, 25): continue"
out_of_session(row) ==
    TimeOfDay(row.date) < SessionStart \/ TimeOfDay(row.date) > SessionEnd

\* the one element of a singleton set; { e(x) : x \in {v} } binds x to the
\* value of v, so that v is computed once
Only(S) == CHOOSE x \in S : TRUE

\* a plausible slip: the stop test of the loop is lost, only the 15:25 close exits
run_manage_trade_no_stop(self, manager, row) ==
    IF ~manager.open_trade THEN [bt |-> self, tm |-> manager]
    ELSE
      LET at_close == TimeOfDay(row.date) >= SessionEnd
      IN  Only({ [bt |-> IF at_close
                         THEN [self EXCEPT !.lots = Max(1, m3.margins \div R(250000)),
                                           !.closed_at = Some(row.date)]
                         ELSE self,
                  tm |-> m3] :
                 m3 \in {IF at_close
                         THEN exit_with_reason(check_trailing_sl(manager, row.date, row.close),
                                               row.close)
                         ELSE check_trailing_sl(manager, row.date, row.close)} })

\* lines 77-95: trailing stop, stop hit and 15:25 close of the open trade;
\* m1, m2, m3 are the manager after each of the three calls
run_manage_trade(self, manager, row) ==
    IF ~manager.open_trade THEN [bt |-> self, tm |-> manager]
    ELSE
      LET price == row.close
          at_close == TimeOfDay(row.date) >= SessionEnd
          sl_hit(m1) == \/ m1.position = "BUY" /\ price <= m1.stop_loss
                        \/ m1.position = "SELL" /\ price >= m1.stop_loss
          compute_lots(m1) == sl_hit(m1) \/ at_close
          after(m1, m3) ==
              [bt |-> IF compute_lots(m1)
                      THEN [self EXCEPT !.lots = Max(1, m3.margins \div R(250000)),
                                        !.closed_at = Some(row.date)]
                      ELSE self,
               tm |-> m3]
      IN  Only({ Only({ Only({ after(m1, m3) :
                    m3 \in {IF at_close THEN exit_with_reason(m2, price) ELSE m2} }) :
                    m2 \in {IF sl_hit(m1) THEN exit_trade(m1, price) ELSE m1} }) :
                    m1 \in {check_trailing_sl(manager, row.date, price)} })

\* a plausible slip: the cooldown is not asked
may_enter_no_cooldown(manager, row) == ~manager.open_trade

\* "if not self.trade_manager.open_trade and not self.trade_manager.in_cooldown(row['date'])"
may_enter(manager, row) ==
    ~manager.open_trade /\ ~in_cooldown(manager, Some(row.date), 0)

\* lines 99-112: the strategy's result for the row becomes an order
run_entry(self, manager, row, result) ==
    IF result.valid /\ result.signal \in {"BUY", "SELL"} /\ result.entry > 0 /\ result.sl > 0
    THEN [bt |-> [self EXCEPT !.trades_today = @ + 1],
          tm |-> place_order([manager EXCEPT !.atr = row.ATR], result.date,
                             result.signal, result.entry, result.sl,
                             result.strategy, self.lots, self.wall)]
    ELSE [bt |-> self, tm |-> manager]

\* the body of the loop of Backtester.run up to the strategy's decision
run_row_manage(self, manager, row) ==
    LET b1 == [run_new_day(self, row) EXCEPT !.clock = Some(row.date)]
    IN  IF out_of_session(row) THEN [bt |-> b1, tm |-> manager]
        ELSE run_manage_trade(b1, manager, row)

\* whether the loop body asks the strategy for a decision on this row, given
\* the manager as the first half of the body left it
asks_strategy(manager, row) ==
    ~out_of_session(row) /\ may_enter(manager, row)

\* the second half of the loop body: mid is the run after run_row_manage
run_row_entry(mid, row, result) ==
    IF asks_strategy(mid.tm, row)
    THEN run_entry(mid.bt, mid.tm, row, result)
    ELSE mid

----------------------------------------------------------------------------
\* MarketData (MarketData.py): the admission filters of decide_trade_from_row

\* a plausible slip: the elapsed time taken with timedelta.seconds
is_same_zone_reentry_seconds(price, last_exit_price, last_exit_time, atr, current_time) ==
    IF ~IsSet(last_exit_price) \/ ~IsSet(last_exit_time) THEN FALSE
    ELSE /\ 2 * Abs(price - Val(last_exit_price)) < atr
         /\ Seconds(current_time - Val(last_exit_time)) < 900

\* "not last_exit_price" is true for None and for 0.0
is_same_zone_reentry(price, last_exit_price, last_exit_time, atr, current_time) ==
    IF ~IsSet(last_exit_price) \/ Val(last_exit_price) = 0 \/ ~IsSet(last_exit_time)
    THEN FALSE
    ELSE LET price_diff == Abs(price - Val(last_exit_price))
             time_diff == current_time - Val(last_exit_time)
         IN  2 * price_diff < atr /\ time_diff < 900

\* a plausible slip: a bar with close = open counts for either direction
is_momentum_confirmed_lenient(df, current_index, direction) ==
    IF current_index < 3 THEN FALSE
    ELSE \A i \in (current_index - 2)..current_index :
            IF direction = "SELL" THEN df[i].close <= df[i].open
            ELSE df[i].close >= df[i].open

\* df is the frame as a sequence of bars; current_index counts from 0, so
\* df.iloc[current_index - 3:current_index] are df[current_index - 2] to
\* df[current_index] of the sequence
is_momentum_confirmed(df, current_index, direction) ==
    IF current_index < 3 THEN FALSE
    ELSE \A i \in (current_index - 2)..current_index :
            IF direction = "SELL" THEN df[i].close < df[i].open
            ELSE df[i].close > df[i].open

\* is_initial_weak_candle: the bar comes less than 300 s after the last exit
\* (entry_time is the manager's last_exit_time) and its range is under 5 or
\* its body under a quarter of its range
is_initial_weak_candle(row, trade_time, entry_time) ==
    LET age == trade_time - entry_time
        body == Abs(row.close - row.open)
        candle_range == row.high - row.low
    IN  age < 300 /\ (candle_range < R(5) \/ 4 * body < candle_range)

\* is_reentry_after_pullback
is_reentry_after_pullback(price, last_exit_price, direction, atr) ==
    IF ~IsSet(last_exit_price) \/ Val(last_exit_price) = 0 THEN FALSE
    ELSE IF direction = "SELL" /\ 2 * price < 2 * Val(last_exit_price) - atr THEN TRUE
    ELSE IF direction = "BUY" /\ 2 * price > 2 * Val(last_exit_price) + atr THEN TRUE
    ELSE FALSE

\* MarketData(...): the attributes the admission filter reads; every
\* constructor call of the drivers leaves trade_manager at its default, None
MarketData(trade_manager) == [trade_manager |-> trade_manager]

\* the four checks of decide_trade_from_row by name: whether the check vetoes
\* the decision for row, which is df[current_index + 1] of the frame
Vetoes(self, check, df, current_index, row, result) ==
    LET manager == self.trade_manager
    IN  CASE check = "Weak momentum" ->
               ~is_momentum_confirmed(df, current_index, result.signal)
          [] check = "Weak post-cooldown candle" ->
               /\ IsSet(manager)
               /\ IsSet(Val(manager).last_exit_time)
               /\ is_initial_weak_candle(row, row.date, Val(Val(manager).last_exit_time))
          [] check = "Same-zone reentry" ->
               /\ IsSet(manager)
               /\ is_same_zone_reentry(result.entry, Val(manager).last_exit_price,
                                       Val(manager).last_exit_time, row.ATR, row.date)
          [] check = "No pullback for re-entry" ->
               /\ IsSet(manager)
               /\ IsSet(Val(manager).last_exit_price)
               /\ Val(Val(manager).last_exit_price) # 0
               /\ ~is_reentry_after_pullback(result.entry, Val(manager).last_exit_price,
                                             result.signal, row.ATR)

\* the checks in the order of the code
FilterOrder ==
    << "Weak momentum", "Weak post-cooldown candle", "Same-zone reentry",
       "No pullback for re-entry" >>

\* the checks applied in a given order, the first veto deciding
RECURSIVE decide_in_order(_, _, _, _, _, _)
decide_in_order(self, order, df, current_index, row, result) ==
    IF order = <<>> THEN result
    ELSE IF Vetoes(self, Head(order), df, current_index, row, result)
    THEN [result EXCEPT !.valid = FALSE, !.reason = Head(order)]
    ELSE decide_in_order(self, Tail(order), df, current_index, row, result)

\* decide_trade_from_row after the strategy has evaluated the row to result
decide_trade_from_row(self, df, current_index, row, result) ==
    IF ~result.valid THEN result
    ELSE decide_in_order(self, FilterOrder, df, current_index, row, result)

\* what a call of func() does inside retry_with_backoff: it raises, or it
\* returns a value (None included)
Raised == [raised |-> TRUE, value |-> None]

Returned(v) == [raised |-> FALSE, value |-> v]

\* fetch() of get_data: the request fails or delivers the frame; the body is
\* wrapped in "try ... except Exception: return None"
fetch(request) ==
    IF request = "fail" THEN Returned(None) ELSE Returned(Some("frame"))

RECURSIVE Power(_, _)
Power(b, n) == IF n = 0 THEN 1 ELSE b * Power(b, n - 1)

\* retry_with_backoff from attempt on: calls[attempt + 1] is what func() does
\* at that attempt; the result is the value returned, the number of calls made
\* and the delays slept
RECURSIVE retry_from(_, _, _, _)
retry_from(calls, retries, backoff, attempt) ==
    IF attempt >= retries THEN [value |-> None, attempts |-> attempt, slept |-> <<>>]
    ELSE IF ~calls[attempt + 1].raised
    THEN [value |-> calls[attempt + 1].value, attempts |-> attempt + 1, slept |-> <<>>]
    ELSE LET rest == retry_from(calls, retries, backoff, attempt + 1)
         IN  [rest EXCEPT !.slept = <<Power(backoff, attempt)>> \o @]

retry_with_backoff(calls, retries, backoff) == retry_from(calls, retries, backoff, 0)

\* get_data: requests[i] is the fate of the i-th request to the data source
get_data(requests, retries, backoff) ==
    retry_with_backoff([i \in DOMAIN requests |-> fetch(requests[i])], retries, backoff)

\* run_live_trading, lines 36-40: what the cycle does with get_data's answer
live_cycle_after_fetch(frame) ==
    IF ~IsSet(frame) THEN [sleep |-> 60, next |-> "new cycle"]
    ELSE [sleep |-> 0, next |-> "prepare_indicators"]

RECURSIVE SumAtr(_, _)
SumAtr(frame, i) == IF i > Len(frame) THEN 0 ELSE frame[i].ATR + SumAtr(frame, i + 1)

\* "if trade_signal in ['BUY', 'SELL']:" of run_live_trading
live_signal_ok(result) == result.signal \in {"BUY", "SELL"}

\* run_live_trading, lines 52-84: what the cycle does with the decision for the
\* last row of the frame; cash is the balance read when the driver started and
\* now the wall clock.  After 14:30 an order needs ATR >= 1.2 * mean ATR.
live_entry(manager, frame, result, cash, now) ==
    IF result.valid /\ ~in_cooldown(manager, None, now)
    THEN LET curr_atr == frame[Len(frame)].ATR
             late == TimeOfDay(result.date) >= (14 * 60 + 30) * 60
         IN  IF late /\ 10 * curr_atr * Len(frame) < 12 * SumAtr(frame, 1)
             THEN [tm |-> manager, did |-> "skipped after 14:30", sleep |-> 60]
             ELSE IF live_signal_ok(result)
             THEN [tm |-> place_order([manager EXCEPT !.atr = curr_atr], result.date,
                                      result.signal, result.entry, result.sl,
                                      result.strategy,
                                      Max(1, cash \div R(250000)) * (TRADE_QTY \div 35),
                                      now),
                   did |-> "place_order", sleep |-> 0]
             ELSE [tm |-> manager, did |-> "no signal", sleep |-> 60]
    ELSE IF in_cooldown(manager, None, now)
         THEN [tm |-> manager, did |-> "cooldown", sleep |-> COOLDOWN_MINUTES * 60]
         ELSE [tm |-> manager, did |-> "no signal", sleep |-> 60]

----------------------------------------------------------------------------
\* Inputs of the operations.

\* 09:30 of day 0
T0 == (9 * 60 + 30) * 60

Day == 24 * 3600

Actions == {"BUY", "SELL"}

\* ATR values of the feed
AtrValues == {R(20), R(40)}

\* the live driver's request: max(1, int(margins // 250000)) * (TRADE_QTY // 35)
LiveLots(margins) == Max(1, margins \div R(250000)) * (TRADE_QTY \div 35)

\* wall clock of a replay run: days after the bars, at another time of day
ReplayWall == T0 + 5 * Day + 250

\* a proposal and the wall clock at which it is placed
Proposal(td, action, price, stoploss, strategy, lots, now) ==
    [trade_date |-> td, action |-> action, price |-> price, stoploss |-> stoploss,
     strategy |-> strategy, lots |-> lots, now |-> now]

\* proposed stops: 49900.006 below the entry for a BUY, 50100.004 above for a SELL
Stoploss(action) == IF action = "BUY" THEN R(49900) + 6 ELSE R(50100) + 4

\* Proposals: at the first bar, placed live, at 50000.00, for the live driver's
\* lot count or for 3 lots; and at a later bar (10 minutes later, or a day and
\* 5 minutes later), placed in a replay, at 50010.004, for 1 lot.
Proposals(margins) ==
    { Proposal(T0, a, R(50000), Stoploss(a), "ORB", l, T0) :
          a \in Actions, l \in {LiveLots(margins), 3} }
    \cup
    { Proposal(td, a, R(50010) + 4, Stoploss(a), "VWAP_REV", 1, ReplayWall) :
          a \in Actions, td \in {T0 + 600, T0 + Day + 300} }

\* bars seen while a trade is open: time and close
TrailTimes == {T0 + 60, T0 + 300}

TrailPrices == {R(49955), R(49970), R(50030), R(50045) + 5}

ExitPrices == {R(50030), R(50100)}

\* starting capital and mode of the account: the backtest's 250000 on paper,
\* and a larger live account
Accounts == {[margins |-> R(250000), paper |-> TRUE], [margins |-> R(600000), paper |-> FALSE]}

----------------------------------------------------------------------------
\* Operations on the TradeManager, called in any order (mode "TM").

Op(name, pre, args) == [op |-> name, pre |-> pre, args |-> args]

TMStep(name, post, args) ==
    /\ mode \in {"TM", "DB"}
    /\ ~tm.raised
    /\ steps < MaxSteps
    /\ tm' = post
    /\ lastOp' = Op(name, tm, args)
    /\ steps' = steps + 1
    /\ UNCHANGED <<mode, feed, ex, bt, twin>>

\* a driver assigns trade_manager.atr from the feed
TMSetAtr ==
    \E a \in AtrValues \ {tm.atr} :
        TMStep("set_atr", [tm EXCEPT !.atr = a], [atr |-> a])

TMPlaceOrder ==
    \E p \in Proposals(tm.margins) :
        TMStep("place_order",
               place_order(tm, p.trade_date, p.action, p.price, p.stoploss,
                           p.strategy, p.lots, p.now),
               p)

\* check_trailing_sl is called only with a trade open (Backtester.run, monitor_trade)
TMCheckTrailingSl ==
    /\ tm.open_trade
    /\ \E td \in TrailTimes, price \in TrailPrices :
        TMStep("check_trailing_sl", check_trailing_sl(tm, td, price),
               [trade_date |-> td, price |-> price])

TMExitWithReason ==
    \E price \in ExitPrices :
        TMStep("exit_with_reason", exit_with_reason(tm, price), [price |-> price])

\* exit_trade as Backtester.run calls it, with a trade open
TMExitTrade ==
    /\ tm.open_trade
    /\ \E price \in ExitPrices :
        TMStep("exit_trade", exit_trade(tm, price), [price |-> price])

\* exit_trade called on a manager that holds no trade; the method has no guard
\* of its own.  Taken at one lot, where the product of price, quantity and
\* lots stays within the integers of the model.
TMExitTradeFlat ==
    /\ ~tm.open_trade
    /\ tm.lots = 1
    /\ \E price \in ExitPrices :
        TMStep("exit_trade", exit_trade(tm, price), [price |-> price])

TMNext ==
    \/ TMSetAtr \/ TMPlaceOrder \/ TMCheckTrailingSl \/ TMExitWithReason \/ TMExitTrade
    \/ TMExitTradeFlat

----------------------------------------------------------------------------
\* Operations on the TradeExecutor, called in any order (mode "EX").

\* bars seen by the executor's monitor: time and close
ExTrailTimes == {T0 + 60, T0 + 300, T0 + 2100}

\* wall clock at an exit
ExitWall == T0 + 2400

EXStep(name, post, args) ==
    /\ mode = "EX"
    /\ steps < MaxSteps
    /\ ex' = post
    /\ lastOp' = Op(name, ex, args)
    /\ steps' = steps + 1
    /\ UNCHANGED <<mode, feed, tm, bt, twin>>

\* monitor_trade refreshes self.atr from the feed
EXSetAtr ==
    \E a \in AtrValues \ {ex.atr} :
        EXStep("set_atr", [ex EXCEPT !.atr = a], [atr |-> a])

EXPlaceOrder ==
    \E p \in Proposals(ex.margins) :
        EXStep("place_order",
               ex_place_order(ex, p.trade_date, p.action, p.price, p.stoploss,
                              p.strategy, p.lots, p.now),
               p)

EXCheckTrailingSl ==
    \E td \in ExTrailTimes, price \in TrailPrices :
        EXStep("check_trailing_sl", ex_check_trailing_sl(ex, td, price),
               [trade_date |-> td, price |-> price])

EXExitTrade ==
    \E price \in ExitPrices :
        EXStep("exit_trade", ex_exit_trade(ex, price, ExitWall), [price |-> price])

EXNext == EXSetAtr \/ EXPlaceOrder \/ EXCheckTrailingSl \/ EXExitTrade

----------------------------------------------------------------------------
\* Backtester.run, one row of the frame per step (mode "BT").  A second run
\* over the same rows and the same strategy results, started at another wall
\* clock time, is carried along in twin.

\* wall clock of the second run: 11:30 five days after the first bar
TwinWall == T0 + 5 * Day + 7200

\* rows follow each other 5 or 15 minutes apart or jump to the 15:25 bar;
\* after 15:25 comes the 15:30 bar or the next day's 09:30 bar; the frame
\* starts at 09:25 or 09:30
NextDates(clock) ==
    IF ~IsSet(clock) THEN {SessionStart - 300, SessionStart}
    ELSE LET c == Val(clock)
             midnight == c - TimeOfDay(c)
         IN  IF TimeOfDay(c) < SessionEnd
             THEN {c + 300, c + 900, midnight + SessionEnd}
             ELSE IF TimeOfDay(c) = SessionEnd
             THEN {c + 300, midnight + Day + SessionStart}
             ELSE {midnight + Day + SessionStart}

\* close and ATR of a row
Bars == { [close |-> R(49890), ATR |-> R(40)],
          [close |-> R(50030), ATR |-> R(20)],
          [close |-> R(50110), ATR |-> R(20)] }

Row(date, bar) == [date |-> date, close |-> bar.close, ATR |-> bar.ATR]

\* what strategy.decide_trade_from_row returns for a row: nothing valid, or an
\* entry at the close with a stop 100 away
NoTrade == [valid |-> FALSE]

Results(row) ==
    {NoTrade} \cup
    { [valid |-> TRUE, date |-> row.date, signal |-> a, entry |-> row.close,
       sl |-> IF a = "BUY" THEN row.close - R(100) + 6 ELSE row.close + R(100) + 4,
       strategy |-> "VWAP_REV"] : a \in Actions }

BTRow ==
    /\ mode = "BT"
    /\ steps < MaxSteps
    /\ \E date \in NextDates(bt.clock), bar \in Bars :
       \E row \in {Row(date, bar)} :
       \E mid1 \in {run_row_manage(bt, tm, row)},
          mid2 \in {run_row_manage(twin.bt, twin.tm, row)} :
       \E result \in IF asks_strategy(mid1.tm, row) \/ asks_strategy(mid2.tm, row)
                     THEN Results(row) ELSE {NoTrade} :
       \E run1 \in {run_row_entry(mid1, row, result)},
          run2 \in {run_row_entry(mid2, row, result)} :
          /\ tm' = run1.tm
          /\ bt' = run1.bt
          /\ twin' = run2
          /\ lastOp' = Op("row", tm,
                          [row |-> row, result |-> result,
                           closed |-> tm.open_trade /\ ~mid1.tm.open_trade,
                           opened |-> run1.tm.uuid > tm.uuid])
    /\ steps' = steps + 1
    /\ UNCHANGED <<mode, feed, ex>>

InitBT ==
    /\ mode = "BT"
    /\ tm = TradeManager(R(250000), TRUE)
    /\ ex = TradeExecutor(TRUE)
    /\ bt = Backtester(ReplayWall)
    /\ twin = [bt |-> Backtester(TwinWall), tm |-> TradeManager(R(250000), TRUE)]
    /\ feed = <<>>
    /\ steps = 0
    /\ lastOp = Op("init", <<>>, <<>>)

SpecBT == InitBT /\ [][BTRow]_vars

----------------------------------------------------------------------------
\* in_cooldown as a function (mode "FN"): last_exit_time is assigned, as
\* test_trade_executor.py does and as an exit does, and in_cooldown is called
\* on the TradeManager and on the TradeExecutor with the same arguments.

ExitTimes == {T0, T0 + 1, T0 + 600, T0 + 2400, T0 + Day}

\* probe times: on the minute around one or two cooldown lengths after T0
ProbeTimes ==
    {None} \cup
    { Some(T0 + d) : d \in {-60, 0, 300, 899, 900, 901, 1200, 1500, 3300, Day + 60} }

WallTimes == {T0 + 300, T0 + 1200}

FNSetLastExit ==
    /\ mode = "FN"
    /\ \E t \in ExitTimes :
          /\ tm' = [tm EXCEPT !.last_exit_time = Some(t)]
          /\ ex' = [ex EXCEPT !.state.last_exit_time = Some(t)]
          /\ lastOp' = Op("set_last_exit_time", tm, [time |-> t])
    /\ UNCHANGED <<mode, feed, bt, twin, steps>>

FNInCooldown ==
    /\ mode = "FN"
    /\ \E t \in ProbeTimes, wall \in WallTimes :
          lastOp' = Op("in_cooldown", tm,
                       [current_time |-> t, now |-> wall,
                        manager |-> in_cooldown(tm, t, wall),
                        executor |-> ex_in_cooldown(ex, t, wall)])
    /\ UNCHANGED <<mode, feed, tm, ex, bt, twin, steps>>

InitCooldown ==
    /\ mode = "FN"
    /\ tm = TradeManager(R(250000), TRUE)
    /\ ex = TradeExecutor(TRUE)
    /\ bt = Backtester(ReplayWall)
    /\ twin = <<>>
    /\ feed = <<>>
    /\ steps = 0
    /\ lastOp = Op("init", <<>>, <<>>)

SpecCooldown == InitCooldown /\ [][FNSetLastExit \/ FNInCooldown]_vars

----------------------------------------------------------------------------
\* The admission filters of MarketData as functions (mode "MD").

\* last exit 50000.00 at T0, or none; entries 10, 19.99, 20 and 30 away
ZoneExitPrices == {None, Some(R(50000))}

ZoneExitTimes == {None, Some(T0)}

ZoneEntries == {R(50010), R(49980) + 10, R(50020), R(49970)}

\* 1 minute before the exit, 10 minutes after, around 15 minutes after, and
\* a day and 5 minutes after
ZoneTimes == {T0 - 60, T0 + 600, T0 + 899, T0 + 900, T0 + Day + 300}

\* bars by colour: bearish, bullish, and close = open
Candles == { [open |-> R(50010), close |-> R(50000)],
             [open |-> R(50000), close |-> R(50010)],
             [open |-> R(50000), close |-> R(50000)] }

\* frames of 3 or 4 bars before and including the signal bar
Frames == [1..3 -> Candles] \cup [1..4 -> Candles]

MDSameZone ==
    /\ mode = "MD"
    /\ \E price \in ZoneEntries, lep \in ZoneExitPrices, let \in ZoneExitTimes,
          atr \in AtrValues, t \in ZoneTimes :
          lastOp' = Op("is_same_zone_reentry", <<>>,
                       [price |-> price, last_exit_price |-> lep,
                        last_exit_time |-> let, atr |-> atr, current_time |-> t,
                        result |-> is_same_zone_reentry(price, lep, let, atr, t)])
    /\ UNCHANGED <<mode, feed, tm, ex, bt, twin, steps>>

MDMomentum ==
    /\ mode = "MD"
    /\ \E df \in Frames, direction \in Actions :
       \E current_index \in 0..(Len(df) - 1) :
          lastOp' = Op("is_momentum_confirmed", <<>>,
                       [df |-> df, current_index |-> current_index,
                        direction |-> direction,
                        result |-> is_momentum_confirmed(df, current_index, direction)])
    /\ UNCHANGED <<mode, feed, tm, ex, bt, twin, steps>>

InitFilters ==
    /\ mode = "MD"
    /\ tm = TradeManager(R(250000), TRUE)
    /\ ex = TradeExecutor(TRUE)
    /\ bt = Backtester(ReplayWall)
    /\ twin = <<>>
    /\ feed = <<>>
    /\ steps = 0
    /\ lastOp = Op("init", <<>>, <<>>)

SpecFilters == InitFilters /\ [][MDSameZone \/ MDMomentum]_vars

----------------------------------------------------------------------------
\* decide_trade_from_row and is_reentry_after_pullback as functions (mode
\* "AD"): one call per run.

\* the signal bar: a candle with wicks of 0 or 20 on either side
SignalRows(candle, date, atr) ==
    { [date |-> date, open |-> candle.open, close |-> candle.close,
       high |-> Max(candle.open, candle.close) + wick,
       low |-> Min(candle.open, candle.close) - wick, ATR |-> atr] : wick \in {0, R(20)} }

\* frames of 4 bars whose first two bars have the same colour
DecideFrames == { df \in [1..4 -> Candles] : df[1] = df[2] }

\* the strategy's evaluation of the row: a valid entry, or none
Evaluations(date, entry) ==
    { [valid |-> FALSE, date |-> date, signal |-> "BUY", entry |-> entry, reason |-> ""] }
    \cup
    { [valid |-> TRUE, date |-> date, signal |-> a, entry |-> entry, reason |-> ""] :
          a \in Actions }

\* decide_trade_from_row of the driver's MarketData for the last row of the
\* frame, the driver's TradeManager having exited last at last_exit_price and
\* last_exit_time (or never)
MDDecide ==
    /\ mode = "AD"
    /\ lastOp.op = "init"
    /\ \E df \in DecideFrames, atr \in AtrValues, t \in {T0 - 60, T0 + 240, T0 + 600, T0 + 900},
          entry \in ZoneEntries :
       \E row \in SignalRows(df[4], t, atr), result \in Evaluations(t, entry),
          exit \in { [price |-> None, time |-> None],
                     [price |-> Some(R(50000)), time |-> Some(T0)] } :
       \E out \in {decide_trade_from_row(MarketData(None), df, 3, row, result)} :
          lastOp' = Op("decide_trade_from_row", <<>>,
                       [df |-> df, row |-> row, result |-> result,
                        last_exit_price |-> exit.price, last_exit_time |-> exit.time,
                        out |-> out])
    /\ UNCHANGED <<mode, feed, tm, ex, bt, twin, steps>>

\* entries 20 below to 20 above the last exit price, in steps of 10, and 30 above
PullbackEntries == { R(50000) + d * R(10) : d \in (0 - 2)..3 }

MDPullback ==
    /\ mode = "AD"
    /\ lastOp.op = "init"
    /\ \E price \in PullbackEntries, lep \in ZoneExitPrices, direction \in Actions,
          atr \in AtrValues :
          lastOp' = Op("is_reentry_after_pullback", <<>>,
                       [price |-> price, last_exit_price |-> lep, direction |-> direction,
                        atr |-> atr,
                        result |-> is_reentry_after_pullback(price, lep, direction, atr)])
    /\ UNCHANGED <<mode, feed, tm, ex, bt, twin, steps>>

InitAdmit ==
    /\ mode = "AD"
    /\ tm = TradeManager(R(250000), TRUE)
    /\ ex = TradeExecutor(TRUE)
    /\ bt = Backtester(ReplayWall)
    /\ twin = <<>>
    /\ feed = <<>>
    /\ steps = 0
    /\ lastOp = Op("init", <<>>, <<>>)

SpecAdmit == InitAdmit /\ [][MDDecide \/ MDPullback]_vars

----------------------------------------------------------------------------
\* The live monitor next to the replay driver (mode "LV"): one position,
\* opened by the same place_order call on both managers, then the same bars
\* given to TradeManager.monitor_trade (one pass per bar, PollDelay after the
\* bar's time) and to the loop body of Backtester.run (twin).

\* half a polling interval (interval = 60)
PollDelay == 60 \div 2

LiveBar(date, close, spread, atr) ==
    [date |-> date, close |-> close, high |-> close + spread, low |-> close - spread,
     ATR |-> atr]

\* the 6 bars up to the signal bar at T0: closes within 8 points and ranges of
\* 6, or closes over 120 points and ranges of 60
QuietHistory ==
    << LiveBar(T0 - 1500, R(49996), R(3), R(20)), LiveBar(T0 - 1200, R(50002), R(3), R(20)),
       LiveBar(T0 - 900, R(49998), R(3), R(20)),  LiveBar(T0 - 600, R(50004), R(3), R(20)),
       LiveBar(T0 - 300, R(50001), R(3), R(20)),  LiveBar(T0, R(50000), R(3), R(20)) >>

WideHistory ==
    << LiveBar(T0 - 1500, R(49900), R(30), R(40)), LiveBar(T0 - 1200, R(49960), R(30), R(40)),
       LiveBar(T0 - 900, R(49930), R(30), R(40)),  LiveBar(T0 - 600, R(50020), R(30), R(40)),
       LiveBar(T0 - 300, R(49950), R(30), R(40)),  LiveBar(T0, R(50000), R(30), R(40)) >>

Histories == {QuietHistory, WideHistory}

\* bars that follow: close, half range and ATR
LiveBars(date) ==
    { LiveBar(date, R(50003), R(3), R(20)), LiveBar(date, R(50030), R(20), R(40)),
      LiveBar(date, R(49890), R(20), R(20)), LiveBar(date, R(50110), R(20), R(20)),
      LiveBar(date, R(50003), R(60), R(20)) }

LiveDates(last) == {last + 300, last - TimeOfDay(last) + SessionEnd}

LVStep(name, pre, args) ==
    /\ mode = "LV"
    /\ steps < MaxSteps
    /\ lastOp' = Op(name, pre, args)
    /\ steps' = steps + 1
    /\ UNCHANGED <<mode, ex, bt>>

\* run_live_trading, lines 75-80, on the last row of the frame; the cycle runs
\* early or late in the 5 minutes that follow the row's time
LVPlaceOrder ==
    /\ tm.uuid = 0
    /\ \E a \in Actions, delay \in {PollDelay, 300 - PollDelay} :
       \E last \in {feed[Len(feed)]} :
       \E opened \in {place_order([tm EXCEPT !.atr = last.ATR], last.date, a,
                                  last.close, Stoploss(a), "ORB",
                                  LiveLots(tm.margins), last.date + delay)} :
          /\ tm' = opened
          /\ twin' = [twin EXCEPT !.tm = opened]
          /\ LVStep("place_order", tm, [action |-> a])
    /\ UNCHANGED feed

\* the next bar arrives: a pass of monitor_trade while the live position is
\* held, and an iteration of Backtester.run
LVBar ==
    /\ tm.uuid = 1
    /\ tm.open_trade \/ twin.tm.open_trade
    /\ \E date \in LiveDates(feed[Len(feed)].date) :
       \E bar \in LiveBars(date) :
       \E frame \in {Append(feed, bar)} :
       \E live \in {IF tm.open_trade
                    THEN monitor_pass(tm, Some(frame), date + PollDelay)
                    ELSE [tm |-> tm, did |-> "not monitoring"]},
          replay \in {run_row_manage(twin.bt, twin.tm,
                                     [date |-> date, close |-> bar.close, ATR |-> bar.ATR])} :
          /\ feed' = frame
          /\ tm' = live.tm
          /\ twin' = replay
          /\ LVStep("bar", tm, [bar |-> bar, did |-> live.did, replay_pre |-> twin.tm])

\* get_data returns nothing: the pass is skipped
LVNoData ==
    /\ tm.open_trade
    /\ \E live \in {monitor_pass(tm, None, feed[Len(feed)].date + 60 + PollDelay)} :
          /\ tm' = live.tm
          /\ LVStep("bar", tm, [bar |-> None, did |-> live.did, replay_pre |-> twin.tm])
    /\ UNCHANGED <<feed, twin>>

\* the next poll of monitor_trade, a polling interval later, finds the same
\* last bar; Backtester.run sees each bar once
LVPoll ==
    /\ tm.open_trade
    /\ \E bar \in {feed[Len(feed)]} :
       \E live \in {monitor_pass(tm, Some(feed), bar.date + PollDelay + 60)} :
          /\ tm' = live.tm
          /\ LVStep("poll", tm, [bar |-> bar, did |-> live.did, replay_pre |-> twin.tm])
    /\ UNCHANGED <<feed, twin>>

InitLive ==
    /\ mode = "LV"
    /\ tm = TradeManager(R(250000), TRUE)
    /\ ex = TradeExecutor(TRUE)
    /\ bt = Backtester(ReplayWall)
    /\ twin = [bt |-> Backtester(ReplayWall), tm |-> TradeManager(R(250000), TRUE)]
    /\ feed \in Histories
    /\ steps = 0
    /\ lastOp = Op("init", <<>>, <<>>)

SpecLive == InitLive /\ [][LVPlaceOrder \/ LVBar \/ LVNoData \/ LVPoll]_vars

----------------------------------------------------------------------------
\* MarketData.get_data as a function of what the data source does (mode "GD").

MaxRequests == 5

\* the fate of each request the driver could make in one get_data call
RequestFates == [1..MaxRequests -> {"fail", "ok"}]

\* run_live_trading and run_backtest build MarketData(retries=5, backoff=2);
\* the defaults are retries=10, backoff=3
RetryCeilings == {3, 5}

Backoffs == {2, 3}

GDGetData ==
    /\ mode = "GD"
    /\ \E requests \in RequestFates, retries \in RetryCeilings, backoff \in Backoffs :
       \E got \in {get_data(requests, retries, backoff)} :
          lastOp' = Op("get_data", <<>>,
                       [requests |-> requests, retries |-> retries, backoff |-> backoff,
                        value |-> got.value, attempts |-> got.attempts,
                        slept |-> got.slept,
                        driver |-> live_cycle_after_fetch(got.value)])
    /\ UNCHANGED <<mode, feed, tm, ex, bt, twin, steps>>

InitFetch ==
    /\ mode = "GD"
    /\ tm = TradeManager(R(250000), TRUE)
    /\ ex = TradeExecutor(TRUE)
    /\ bt = Backtester(ReplayWall)
    /\ twin = <<>>
    /\ feed = <<>>
    /\ steps = 0
    /\ lastOp = Op("init", <<>>, <<>>)

SpecFetch == InitFetch /\ [][GDGetData]_vars

----------------------------------------------------------------------------
\* The TradeManager with a record sink that can fail (mode "DB"): the
\* operations of mode "TM", and the database connection changing state between
\* them.  A call that raises ends the run.

SinkStates == {"up", "rejecting", "down"}

DBSetSink ==
    /\ mode = "DB"
    /\ \E sink \in SinkStates \ {tm.sink} :
          TMStep("set_sink", [tm EXCEPT !.sink = sink], [sink |-> sink])

InitSink ==
    /\ mode = "DB"
    /\ tm = TradeManager(R(250000), FALSE)
    /\ ex = TradeExecutor(FALSE)
    /\ bt = Backtester(ReplayWall)
    /\ twin = <<>>
    /\ feed = <<>>
    /\ steps = 0
    /\ lastOp = Op("init", <<>>, <<>>)

SpecSink == InitSink /\ [][TMNext \/ DBSetSink]_vars

----------------------------------------------------------------------------

\* The entry step of the two drivers (mode "EN").  A run is either the live
\* driver's cycle, on tm and the frame feed, or the loop of Backtester.run, on
\* bt and tm with no frame.  Each is given decisions of the strategy that are
\* valid and well formed, or marked valid with a signal that is not BUY or
\* SELL, or with an entry or a stop that is not positive.

\* entry and stop of a decision on a bar closing at close
Levels(close, signal) ==
    IF signal = "BUY"
    THEN { [entry |-> close, sl |-> close - R(100) + 6], [entry |-> 0, sl |-> close - R(100)],
           [entry |-> close, sl |-> 0] }
    ELSE IF signal = "SELL"
    THEN { [entry |-> close, sl |-> close + R(100) + 4], [entry |-> close, sl |-> 0 - R(10)] }
    ELSE { [entry |-> close, sl |-> close - R(100)] }

Offers(date, close) ==
    {NoTrade} \cup
    UNION { { [valid |-> TRUE, date |-> date, signal |-> a, entry |-> l.entry,
               sl |-> l.sl, strategy |-> "VWAP_REV"] : l \in Levels(close, a) } :
            a \in {"BUY", "SELL", "HOLD"} }

\* the decision names BUY or SELL and a positive entry and stop
WellFormed(result) ==
    result.valid /\ result.signal \in {"BUY", "SELL"} /\ result.entry > 0 /\ result.sl > 0

\* the live frame's next bar: 5 minutes on, or the first bar at or after 14:30
EntryDates(last) ==
    {last + 300, Max(last + 300, last - TimeOfDay(last) + (14 * 60 + 30) * 60)}

EntryBars(date) == { LiveBar(date, R(50003), R(3), R(20)), LiveBar(date, R(50030), R(20), R(40)) }

ENStep(name, post, args) ==
    /\ mode = "EN"
    /\ steps < MaxSteps
    /\ tm' = post
    /\ lastOp' = Op(name, tm, args)
    /\ steps' = steps + 1
    /\ UNCHANGED <<mode, ex, twin>>

\* a cycle of run_live_trading with no position held (monitor_trade returns
\* once the position is closed)
ENLive ==
    /\ feed # <<>>
    /\ ~tm.open_trade
    /\ \E date \in EntryDates(feed[Len(feed)].date) :
       \E bar \in EntryBars(date) :
       \E frame \in {Append(feed, bar)} :
       \E result \in Offers(date, bar.close) :
       \E out \in {live_entry(tm, frame, result, R(250000), date + PollDelay)} :
          /\ feed' = frame
          /\ ENStep("live_cycle", out.tm, [result |-> result, did |-> out.did])
    /\ UNCHANGED bt

\* a pass of monitor_trade over the next bar while the live position is held
ENMonitor ==
    /\ feed # <<>>
    /\ tm.open_trade
    /\ \E date \in EntryDates(feed[Len(feed)].date) :
       \E bar \in EntryBars(date) :
       \E frame \in {Append(feed, bar)} :
       \E live \in {monitor_pass(tm, Some(frame), date + PollDelay)} :
          /\ feed' = frame
          /\ ENStep("monitor_pass", live.tm, [result |-> NoTrade, did |-> live.did])
    /\ UNCHANGED bt

\* an iteration of Backtester.run
ENReplay ==
    /\ feed = <<>>
    /\ \E date \in NextDates(bt.clock), bar \in Bars :
       \E row \in {Row(date, bar)} :
       \E mid \in {run_row_manage(bt, tm, row)} :
       \E result \in IF asks_strategy(mid.tm, row) THEN Offers(date, row.close)
                     ELSE {NoTrade} :
       \E run \in {run_row_entry(mid, row, result)} :
          /\ bt' = run.bt
          /\ ENStep("replay_row", run.tm,
                    [result |-> result,
                     did |-> IF ~asks_strategy(mid.tm, row) THEN "not asked"
                             ELSE IF run.tm = mid.tm THEN "no order"
                             ELSE "place_order"])
    /\ UNCHANGED feed

InitEntry ==
    /\ mode = "EN"
    /\ tm = TradeManager(R(250000), TRUE)
    /\ ex = TradeExecutor(TRUE)
    /\ bt = Backtester(ReplayWall)
    /\ twin = <<>>
    /\ feed \in {<<>>, QuietHistory}
    /\ steps = 0
    /\ lastOp = Op("init", <<>>, <<>>)

SpecEntry == InitEntry /\ [][ENLive \/ ENMonitor \/ ENReplay]_vars

----------------------------------------------------------------------------
\* SLManager.check_and_update_sl as a function (mode "SL"): an executor holding
\* a position opened at 50000.00 is given bars in time order, at ATR values
\* below and above 50 / 0.6.

TrailAtrs == {R(20), R(40), R(100)}

\* closes within an ATR of the entry, near a target, and well beyond
TrailCloses ==
    {R(50030), R(50110), R(50140), R(50145), R(50150),
     R(49970), R(49890), R(49860), R(49855), R(49850)}

SLCheck ==
    /\ mode = "SL"
    /\ steps < MaxSteps
    /\ \E td \in ExTrailTimes, price \in TrailCloses :
          /\ lastOp.op = "check_and_update_sl" => td >= lastOp.args.trade_date
          /\ ex' = check_and_update_sl(ex, td, price, ex.atr)
          /\ lastOp' = Op("check_and_update_sl", ex, [trade_date |-> td, price |-> price])
    /\ steps' = steps + 1
    /\ UNCHANGED <<mode, feed, tm, bt, twin>>

InitTrail ==
    /\ mode = "SL"
    /\ tm = TradeManager(R(250000), TRUE)
    /\ \E a \in Actions, atr \in TrailAtrs :
          ex = ex_place_order([TradeExecutor(TRUE) EXCEPT !.atr = atr], T0, a, R(50000),
                              Stoploss(a), "ORB", 1, T0)
    /\ bt = Backtester(ReplayWall)
    /\ twin = <<>>
    /\ feed = <<>>
    /\ steps = 0
    /\ lastOp = Op("init", <<>>, <<>>)

SpecTrail == InitTrail /\ [][SLCheck]_vars

----------------------------------------------------------------------------
\* TradeManager.should_exit_price as a function (mode "XP"): a manager holding
\* a position opened at 50000.00 at T0 (stop 49900.01 or 50100.00, target
\* 50050.00 or 49950.00) is asked about bars, and its stop is trailed between
\* the questions.

\* closes at and around the two stops, the two targets and the entry
ExitCloses ==
    {R(49900), R(49900) + 10, R(49940), R(50000), R(50045), R(50060), R(50100), R(50110)}

\* trade_time: not given, or a bar 30, 60 or 300 s after the entry
ExitBarTimes == {None, Some(T0 + 30), Some(T0 + 60), Some(T0 + 300)}

XPShouldExit ==
    /\ mode = "XP"
    /\ steps < MaxSteps
    /\ \E close \in ExitCloses, spread \in {R(3), R(20)}, trade_time \in ExitBarTimes :
       \E bar \in {LiveBar(T0, close, spread, tm.atr)} :
          lastOp' = Op("should_exit_price", tm,
                       [high |-> bar.high, low |-> bar.low, price |-> bar.close,
                        trade_time |-> trade_time,
                        verdict |-> should_exit_price(tm, bar.high, bar.low, bar.close,
                                                      trade_time)])
    /\ steps' = steps + 1
    /\ UNCHANGED <<mode, feed, tm, ex, bt, twin>>

XPTrail ==
    /\ mode = "XP"
    /\ steps < MaxSteps
    /\ \E price \in TrailPrices :
          /\ tm' = check_trailing_sl(tm, T0 + 300, price)
          /\ lastOp' = Op("check_trailing_sl", tm, [trade_date |-> T0 + 300, price |-> price])
    /\ steps' = steps + 1
    /\ UNCHANGED <<mode, feed, ex, bt, twin>>

\* closes of the last bar of a frame: near the entry, at and around 10 above
\* it (0.5 ATR at the default ATR of 20), and at and around the closes that
\* make the band of the last 6 bars 15 wide
StallCloses ==
    { R(50003), R(50010) - 10, R(50010), R(50010) + 10, R(50013) - 10, R(50013),
      R(49989), R(49989) + 10 }

\* frames ending in such a bar: the 6 quiet bars before it, or only 4 of them
StallFrames ==
    UNION { { Append(QuietHistory, bar), Append(SubSeq(QuietHistory, 3, 6), bar) } :
            bar \in { LiveBar(T0 + 300, close, R(3), R(20)) : close \in StallCloses } }

XPSidewaysStall ==
    /\ mode = "XP"
    /\ steps < MaxSteps
    /\ \E frame \in StallFrames :
          lastOp' = Op("_check_sideways_stall_exit", tm,
                       [frame |-> frame, result |-> _check_sideways_stall_exit(tm, frame)])
    /\ steps' = steps + 1
    /\ UNCHANGED <<mode, feed, tm, ex, bt, twin>>

InitExit ==
    /\ mode = "XP"
    /\ \E a \in Actions :
          tm = place_order(TradeManager(R(250000), TRUE), T0, a, R(50000), Stoploss(a),
                           "ORB", 1, T0)
    /\ ex = TradeExecutor(TRUE)
    /\ bt = Backtester(ReplayWall)
    /\ twin = <<>>
    /\ feed = <<>>
    /\ steps = 0
    /\ lastOp = Op("init", <<>>, <<>>)

SpecExit == InitExit /\ [][XPShouldExit \/ XPTrail \/ XPSidewaysStall]_vars

\* The dynamic target of an order (mode "TG"): a manager and an executor that
\* have recorded the ATR of up to 2 earlier entries are given an ATR by the
\* driver (or none yet: 0) and the same order, then bars and an exit.

\* atr_history after no, one or two entries
AtrHistories == {<<>>} \cup { <<a>> : a \in AtrValues } \cup { <<a, b>> : a, b \in AtrValues }

TGStep(name, args) ==
    /\ mode = "TG"
    /\ steps < MaxSteps
    /\ lastOp' = Op(name, [tm |-> tm, ex |-> ex], args)
    /\ steps' = steps + 1
    /\ UNCHANGED <<mode, feed, bt, twin>>

TGPlaceOrder ==
    /\ \E a \in Actions, price \in {R(50000), R(50010) + 4} :
          /\ tm' = place_order(tm, T0 + Day, a, price, Stoploss(a), "ORB", 1, T0 + Day)
          /\ ex' = ex_place_order(ex, T0 + Day, a, price, Stoploss(a), "ORB", 1, T0 + Day)
          /\ TGStep("place_order", [action |-> a, price |-> price])

TGCheckTrailingSl ==
    /\ tm.open_trade
    /\ \E price \in TrailPrices :
          /\ tm' = check_trailing_sl(tm, T0 + Day + 300, price)
          /\ ex' = ex_check_trailing_sl(ex, T0 + Day + 300, price)
          /\ TGStep("check_trailing_sl", [price |-> price])

TGExit ==
    /\ tm.open_trade
    /\ \E price \in ExitPrices :
          /\ tm' = exit_with_reason(tm, price)
          /\ ex' = ex_exit_trade(ex, price, T0 + Day + 600)
          /\ TGStep("exit", [price |-> price])

InitTarget ==
    /\ mode = "TG"
    /\ \E hist \in AtrHistories, atr \in {0} \cup AtrValues :
          /\ tm = [TradeManager(R(250000), TRUE) EXCEPT !.atr_history = hist, !.atr = atr]
          /\ ex = [TradeExecutor(TRUE) EXCEPT !.atr_history = hist, !.atr = atr]
    /\ bt = Backtester(ReplayWall)
    /\ twin = <<>>
    /\ feed = <<>>
    /\ steps = 0
    /\ lastOp = Op("init", <<>>, <<>>)

SpecTarget == InitTarget /\ [][TGPlaceOrder \/ TGCheckTrailingSl \/ TGExit]_vars

----------------------------------------------------------------------------
\* The loop of run_live_trading on one trading day (mode "RL"), WEEKEND_TESTING
\* off.  bt holds the driver's place (pc: at the top of a cycle, inside
\* monitor_trade, or out of the loop) and the wall clock, which advances by
\* the sleeps of the code and stands still at 16:00, half an hour after the
\* market has closed, where the model of the day ends.  The feed's last bar is the 5-minute bar of the wall clock,
\* the 15:25 bar being the last of the session.

\* TradeWinUtils.is_market_open on a weekday that is no holiday
is_market_open(now) ==
    (9 * 60 + 15) * 60 <= TimeOfDay(now) /\ TimeOfDay(now) <= (15 * 60 + 30) * 60

\* 16:00 of the day of the run
RunEnd == 16 * 3600

\* the wall clock after time.sleep(seconds)
Slept(now, seconds) == Min(now + seconds, RunEnd)

\* the frame get_data returns at wall clock now: a quiet history and the bar
\* in progress, which is quiet with a low ATR or wide with a high one
RunFrames(now) ==
    LET date == Min(now - (now % 300), DateOf(now) * Day + SessionEnd)
    IN  { << LiveBar(date - 1500, R(49996), R(3), R(20)),
             LiveBar(date - 1200, R(50002), R(3), R(20)),
             LiveBar(date - 900, R(49998), R(3), R(20)),
             LiveBar(date - 600, R(50004), R(3), R(20)),
             LiveBar(date - 300, R(50001), R(3), R(20)), bar >> :
          bar \in { LiveBar(date, R(50003), R(3), R(20)),
                    LiveBar(date, R(50030), R(20), R(40)) } }

\* wall clock at which the driver is started
RunStarts == {(15 * 60 + 19) * 60 + 45, (15 * 60 + 24) * 60 + 15}

RLStep(name, post, pc, now, args) ==
    /\ mode = "RL"
    /\ tm' = post
    /\ bt' = [pc |-> pc, clock |-> now]
    /\ lastOp' = Op(name, [tm |-> tm, bt |-> bt], args)
    /\ UNCHANGED <<mode, ex, twin, steps>>

\* line 93 of run_live_trading, reached at wall clock now
after_cycle(now) == IF reached_cutoff_time(now) THEN "done" ELSE "cycle"

\* lines 97-99: the market is closed, sleep 300
RLClosed ==
    /\ bt.pc = "cycle"
    /\ ~is_market_open(bt.clock)
    /\ RLStep("market closed", tm, "cycle", Slept(bt.clock, 300), <<>>)
    /\ UNCHANGED feed

\* lines 29-34: today's pnl in the trades table is below MAX_DAILY_LOSS
RLDailyLoss ==
    /\ bt.pc = "cycle"
    /\ is_market_open(bt.clock)
    /\ RLStep("daily loss", tm, "done", bt.clock, <<>>)
    /\ UNCHANGED feed

\* lines 36-47: get_data returns None, or fewer than 15 rows: sleep 60, continue
RLNoData ==
    /\ bt.pc = "cycle"
    /\ is_market_open(bt.clock)
    /\ RLStep("no data", tm, "cycle", Slept(bt.clock, 60), <<>>)
    /\ UNCHANGED feed

\* lines 49-96: the cycle with a frame and the decision for its last row
RLDecide ==
    /\ bt.pc = "cycle"
    /\ is_market_open(bt.clock)
    /\ \E frame \in RunFrames(bt.clock) :
       \E result \in Results(Row(frame[Len(frame)].date, frame[Len(frame)])) :
       \E out \in {live_entry(tm, frame, result, R(250000), bt.clock)} :
       \E now \in {Slept(bt.clock, out.sleep)} :
          /\ feed' = frame
          /\ RLStep(out.did, out.tm,
                    IF out.did = "skipped after 14:30" THEN "cycle"
                    ELSE IF out.tm.open_trade THEN "monitor"
                    ELSE after_cycle(now),
                    now, [result |-> result])

\* a pass of the loop of monitor_trade (called at line 81) that is given no
\* data: sleep interval, continue
RLMonitorNoData ==
    /\ bt.pc = "monitor"
    /\ \E live \in {monitor_pass(tm, None, bt.clock)} :
          RLStep(live.did, live.tm, "monitor", Slept(bt.clock, 60), <<>>)
    /\ UNCHANGED feed

\* a pass of the loop of monitor_trade over a frame; the cutoff exit breaks
\* at once, any other exit sleeps COOLDOWN_MINUTES first, and both return to
\* line 93
RLMonitor ==
    /\ bt.pc = "monitor"
    /\ \E frame \in RunFrames(bt.clock) :
       \E live \in {monitor_pass(tm, Some(frame), bt.clock)} :
       \E now \in {Slept(bt.clock, IF live.did = "cutoff" THEN 0
                                   ELSE IF live.tm.open_trade THEN 60
                                   ELSE COOLDOWN_MINUTES * 60)} :
          /\ feed' = frame
          /\ RLStep(live.did, live.tm,
                    IF live.tm.open_trade THEN "monitor" ELSE after_cycle(now),
                    now, <<>>)

RLNext == RLClosed \/ RLDailyLoss \/ RLNoData \/ RLDecide \/ RLMonitorNoData \/ RLMonitor

InitRun ==
    /\ mode = "RL"
    /\ tm = TradeManager(R(250000), TRUE)
    /\ ex = TradeExecutor(TRUE)
    /\ bt \in { [pc |-> "cycle", clock |-> now] : now \in RunStarts }
    /\ twin = <<>>
    /\ feed = <<>>
    /\ steps = 0
    /\ lastOp = Op("init", <<>>, <<>>)

\* the driver's loop keeps running, and the feed does not fail for ever: a
\* cycle or a pass that could be given data again and again is given data
SpecRun ==
    /\ InitRun
    /\ [][RLNext]_vars
    /\ WF_vars(RLNext)
    /\ SF_vars(RLDecide)
    /\ SF_vars(RLMonitor)

----------------------------------------------------------------------------
Init ==
    /\ mode \in {"TM", "EX"}
    /\ \E acct \in Accounts :
          /\ tm = TradeManager(acct.margins, acct.paper)
          /\ ex = TradeExecutor(acct.paper)
    /\ bt = Backtester(ReplayWall)
    /\ twin = <<>>
    /\ feed = <<>>
    /\ steps = 0
    /\ lastOp = Op("init", <<>>, <<>>)

Next == TMNext \/ EXNext

Spec == Init /\ [][Next]_vars

----------------------------------------------------------------------------
\* Properties.

Held(pos) == pos \in {"BUY", "SELL"}

\* C1: ratchet invariant.  A trailing-stop call (TradeManager.check_trailing_sl,
\* or SLManager.check_and_update_sl through TradeExecutor.check_trailing_sl)
\* never lowers stop_loss while the position is BUY and never raises it while
\* the position is SELL; hence no sequence of such calls does.
C1_Ratchet ==
    lastOp.op = "check_trailing_sl" =>
      /\ mode = "TM" =>
            /\ lastOp.pre.position = "BUY" => tm.stop_loss >= lastOp.pre.stop_loss
            /\ lastOp.pre.position = "SELL" => tm.stop_loss <= lastOp.pre.stop_loss
            /\ tm.position = lastOp.pre.position
      /\ mode = "EX" =>
            /\ lastOp.pre.state.position = "BUY" =>
                  ex.state.stop_loss >= lastOp.pre.state.stop_loss
            /\ lastOp.pre.state.position = "SELL" =>
                  ex.state.stop_loss <= lastOp.pre.state.stop_loss
            /\ ex.state.position = lastOp.pre.state.position

\* a trailing call on a BUY drops a candidate below a stop that an earlier
\* trailing call had raised
C1_Witness ==
    /\ mode = "TM"
    /\ lastOp.op = "check_trailing_sl"
    /\ lastOp.pre.position = "BUY"
    /\ tm.stop_loss = lastOp.pre.stop_loss
    /\ tm.last_sl_update_time = Some(lastOp.args.trade_date)
    /\ \E i \in DOMAIN tm.db_handler :
          /\ tm.db_handler[i].notes = "SL adjusted"
          /\ tm.db_handler[i].sl = tm.stop_loss
          /\ lastOp.args.price - AtrTimesMultiplier(tm) < tm.stop_loss

\* C2: TradeManager.place_order called while open_trade is true changes no field
\* of the manager, writes no record and sends no order.
C2_PlaceWhileOpenNoOp ==
    (mode = "TM" /\ lastOp.op = "place_order" /\ lastOp.pre.open_trade) => tm = lastOp.pre

\* place_order arrives for the other direction while a trade is open on a live account
C2_Witness ==
    /\ mode = "TM"
    /\ lastOp.op = "place_order"
    /\ lastOp.pre.open_trade
    /\ ~tm.PAPER_TRADING
    /\ lastOp.args.action # tm.position
    /\ Round2(lastOp.args.price) # tm.entry_price

\* C3: TradeExecutor.place_order called while state.open_trade is true changes no
\* field of TradeState.
C3_ExPlaceWhileOpenNoOp ==
    (mode = "EX" /\ lastOp.op = "place_order" /\ lastOp.pre.state.open_trade)
        => ex.state = lastOp.pre.state

\* C5: after TradeExecutor.exit_trade closes an open trade at price p,
\* state.last_exit_price is p, state.last_exit_time is set, and in_cooldown is
\* true at the time of the exit.
C5_ExitStampsLastExit ==
    (mode = "EX" /\ lastOp.op = "exit_trade" /\ lastOp.pre.state.open_trade) =>
        /\ ex.state.last_exit_price = Some(lastOp.args.price)
        /\ IsSet(ex.state.last_exit_time)
        /\ ex_in_cooldown(ex, Some(ExitWall), ExitWall)

\* C8: an exit called while no trade is open (TradeManager.exit_with_reason,
\* TradeExecutor.exit_trade) leaves the whole object as it was: no record, no
\* order, margins, last exit and position fields unchanged.
C8_ExitWhileFlatNoOp ==
    /\ (mode = "TM" /\ lastOp.op = "exit_with_reason" /\ ~lastOp.pre.open_trade)
          => tm = lastOp.pre
    /\ (mode = "EX" /\ lastOp.op = "exit_trade" /\ ~lastOp.pre.state.open_trade)
          => ex = lastOp.pre

\* exit_with_reason arrives on a live account that is flat after an earlier trade
C8_Witness ==
    /\ mode = "TM"
    /\ lastOp.op = "exit_with_reason"
    /\ ~lastOp.pre.open_trade
    /\ ~tm.PAPER_TRADING
    /\ IsSet(tm.last_exit_price)

\* C9: open_trade is true exactly when position is BUY or SELL, in every
\* reachable state of the TradeManager and of the TradeExecutor.
C9_OpenIffPosition ==
    /\ tm.open_trade <=> Held(tm.position)
    /\ tm.open_trade \/ tm.position = "None"
    /\ ex.state.open_trade <=> Held(ex.state.position)
    /\ ex.state.open_trade \/ ex.state.position = "None"

\* the executor is flat again after a trade was opened and closed
C9_Witness ==
    /\ mode = "EX"
    /\ lastOp.op = "exit_trade"
    /\ lastOp.pre.state.open_trade
    /\ ~ex.state.open_trade

\* C10: after every accepted open, 1 <= lots <= min(100, max(1, floor(margins / 250000))).
C10_LotsWithinBounds ==
    (mode = "TM" /\ lastOp.op = "place_order" /\ ~lastOp.pre.open_trade /\ tm.open_trade)
        => /\ 1 <= tm.lots
           /\ tm.lots <= Min(100, Max(1, tm.margins \div R(250000)))

\* C4: cooldown runs from the close of a position.  In a replay, once a
\* position has been closed on the bar at time t1, in_cooldown is true at t1
\* and up to the last second before t1 + COOLDOWN_MINUTES while the manager
\* stays flat, and no position is opened on a bar in that interval (the
\* closing bar included), however long the trade was open.
C4_CooldownFromClose ==
    (mode = "BT" /\ IsSet(bt.closed_at)) =>
        LET t1 == Val(bt.closed_at)
        IN  /\ ~tm.open_trade =>
                  /\ in_cooldown(tm, Some(t1), bt.wall)
                  /\ in_cooldown(tm, Some(t1 + CooldownSeconds - 1), bt.wall)
            /\ (lastOp.op = "row" /\ lastOp.args.opened) =>
                  ~(t1 <= lastOp.args.row.date
                    /\ lastOp.args.row.date < t1 + CooldownSeconds)

\* the seconds between the effective time of an in_cooldown call and the
\* last exit
SinceLastExit ==
    (IF IsSet(lastOp.args.current_time) THEN Val(lastOp.args.current_time)
     ELSE lastOp.args.now) - Val(tm.last_exit_time)

\* C6: in_cooldown(t) is true exactly when last_exit_time is set and
\* t - last_exit_time is less than COOLDOWN_MINUTES, on the TradeManager and on
\* the TradeExecutor alike; with the 15 minute cooldown it is true 5 minutes
\* after the exit and false 20 minutes after it.
C6_InCooldownIff ==
    lastOp.op = "in_cooldown" =>
        /\ lastOp.args.manager =
              (IsSet(tm.last_exit_time) /\ SinceLastExit < COOLDOWN_MINUTES * 60)
        /\ lastOp.args.executor = lastOp.args.manager
        /\ (IsSet(tm.last_exit_time) /\ SinceLastExit = 5 * 60) => lastOp.args.manager
        /\ (IsSet(tm.last_exit_time) /\ SinceLastExit = 20 * 60) => ~lastOp.args.manager

\* in_cooldown answered false exactly COOLDOWN_MINUTES after the exit
C6_Witness ==
    /\ lastOp.op = "in_cooldown"
    /\ IsSet(tm.last_exit_time)
    /\ ex.state.last_exit_time = tm.last_exit_time
    /\ SinceLastExit = COOLDOWN_MINUTES * 60
    /\ ~lastOp.args.manager
    /\ ~lastOp.args.executor

\* what a replay produces, as far as its outcome goes: the position held, its
\* stop, the trade records written, the margins and the day's trade count
Outcome(run) ==
    [position |-> run.tm.position, open_trade |-> run.tm.open_trade,
     stop_loss |-> run.tm.stop_loss, margins |-> run.tm.margins,
     records |-> run.tm.db_handler, lots |-> run.bt.lots,
     trades_today |-> run.bt.trades_today]

\* C7: replay determinism.  Two runs of Backtester.run over the same rows and
\* the same strategy results, started at different wall clock times, have
\* produced the same opens, stop updates, exits, trade count and margins after
\* every row.
C7_ReplayDeterministic ==
    mode = "BT" => Outcome([tm |-> tm, bt |-> bt]) = Outcome(twin)

\* the record written last
LastRecord(manager) == manager.db_handler[Len(manager.db_handler)]

\* C11: TradeManager.exit_trade on an open trade adds to margins exactly
\* (exit - entry) * TRADE_QTY * lots - 250 for a BUY and
\* (entry - exit) * TRADE_QTY * lots - 100 for a SELL, rounded to 2 decimals,
\* and writes that pnl on the exited record; a BUY at 50000.00 with quantity 25
\* and 1 lot exited at 50100.00 gives 2250.00.
C11_FlatChargePnl ==
    (mode = "TM" /\ lastOp.op \in {"exit_trade", "exit_with_reason"}
                 /\ lastOp.pre.open_trade) =>
        LET pre == lastOp.pre
            exit == lastOp.args.price
            gross == IF pre.position = "BUY"
                     THEN (exit - pre.entry_price) * 25 * pre.lots
                     ELSE (pre.entry_price - exit) * 25 * pre.lots
            pnl == Round2(gross - (IF pre.position = "BUY" THEN 250000 ELSE 100000))
        IN  /\ tm.margins = pre.margins + pnl
            /\ Len(tm.db_handler) = Len(pre.db_handler) + 1
            /\ LastRecord(tm).exited
            /\ LastRecord(tm).pnl = pnl
            /\ (pre.position = "BUY" /\ pre.entry_price = 50000000 /\ pre.lots = 1
                    /\ exit = 50100000)
                  => tm.margins - pre.margins = 2250000

\* a SELL entered at 50000.00 with 1 lot was exited at 50100.00 for -2600.00
C11_Witness ==
    /\ mode = "TM"
    /\ lastOp.op = "exit_trade"
    /\ lastOp.pre.position = "SELL"
    /\ lastOp.pre.entry_price = 50000000
    /\ lastOp.pre.lots = 1
    /\ lastOp.args.price = 50100000
    /\ tm.margins - lastOp.pre.margins = -2600000
    /\ LastRecord(tm).pnl = -2600000

\* C12: TradeManager.place_order from FLAT is rejected, leaving the manager
\* unchanged, exactly when a last exit exists, |price - last_exit_price| is
\* below half the ATR and trade_date - last_exit_time is less than 15 minutes;
\* with 15 minutes or more elapsed (more than a day included) it is accepted.
C12_SameZoneReentry ==
    (mode = "TM" /\ lastOp.op = "place_order" /\ ~lastOp.pre.open_trade) =>
        LET pre == lastOp.pre
            too_soon ==
                /\ IsSet(pre.last_exit_time)
                /\ 2 * Abs(lastOp.args.price - Val(pre.last_exit_price)) < pre.atr
                /\ lastOp.args.trade_date - Val(pre.last_exit_time) < 15 * 60
        IN  IF too_soon THEN tm = pre ELSE tm.open_trade

\* C13: MarketData.is_same_zone_reentry vetoes a proposal exactly when a last
\* exit price and time exist, |entry - last exit price| is below half the ATR
\* and less than 900 seconds have passed since the last exit; with the last
\* exit at 50000.00 and ATR 40 an entry at 50010.00 is vetoed 10 minutes after
\* the exit and not vetoed 15 minutes or more after it.
C13_SameZoneVeto ==
    lastOp.op = "is_same_zone_reentry" =>
        LET a == lastOp.args
        IN  /\ a.result =
                  (/\ IsSet(a.last_exit_price)
                   /\ IsSet(a.last_exit_time)
                   /\ 2 * Abs(a.price - Val(a.last_exit_price)) < a.atr
                   /\ a.current_time - Val(a.last_exit_time) < 900)
            /\ (a.last_exit_price = Some(50000000) /\ IsSet(a.last_exit_time)
                    /\ a.atr = 40000 /\ a.price = 50010000) =>
                  /\ a.current_time = Val(a.last_exit_time) + 600 => a.result
                  /\ a.current_time >= Val(a.last_exit_time) + 900 => ~a.result

\* the example entry is let through a day and 5 minutes after the exit
C13_Witness ==
    /\ lastOp.op = "is_same_zone_reentry"
    /\ lastOp.args.last_exit_price = Some(50000000)
    /\ lastOp.args.atr = 40000
    /\ lastOp.args.price = 50010000
    /\ IsSet(lastOp.args.last_exit_time)
    /\ lastOp.args.current_time = Val(lastOp.args.last_exit_time) + 86700
    /\ ~lastOp.args.result

\* the three bars before the signal bar, when there are three
PriorThree(a) == { a.df[i] : i \in (a.current_index - 2)..a.current_index }

\* C14: MarketData.is_momentum_confirmed accepts a SELL iff at least 3 bars
\* precede the signal bar and each of the 3 bars just before it has
\* close < open, and a BUY iff each of them has close > open; fewer than 3
\* prior bars, or one bar of the other colour or with close = open, is a veto.
C14_MomentumConfirmed ==
    lastOp.op = "is_momentum_confirmed" =>
        LET a == lastOp.args
        IN  /\ a.direction = "SELL" =>
                  (a.result <=> /\ a.current_index >= 3
                                /\ \A b \in PriorThree(a) : b.close < b.open)
            /\ a.direction = "BUY" =>
                  (a.result <=> /\ a.current_index >= 3
                                /\ \A b \in PriorThree(a) : b.close > b.open)

\* a SELL is vetoed for one bar with close = open among three bearish ones
C14_Witness ==
    /\ lastOp.op = "is_momentum_confirmed"
    /\ lastOp.args.direction = "SELL"
    /\ lastOp.args.current_index = 3
    /\ \E b \in PriorThree(lastOp.args) : b.close = b.open
    /\ \A b \in PriorThree(lastOp.args) : b.close <= b.open
    /\ ~lastOp.args.result

\* the decisions taken for a position: whether it is still held, its stop, and
\* the stop updates and exits recorded
RecordOf(r) == [notes |-> r.notes, sl |-> r.sl, exitprice |-> r.exitprice]

Decisions(manager) ==
    [open_trade |-> manager.open_trade, position |-> manager.position,
     stop_loss |-> manager.stop_loss,
     records |-> [i \in DOMAIN manager.db_handler |-> RecordOf(manager.db_handler[i])]]

\* C15: the live monitor and the replay driver take the same decisions for an
\* open position on the same bars: the same stop updates bar by bar and an exit
\* on the same bar.
C15_LiveEqualsReplay ==
    mode = "LV" => Decisions(tm) = Decisions(twin.tm)

\* the number of requests that fail before the first one that succeeds, up to n
RECURSIVE FailuresBeforeSuccess(_, _)
FailuresBeforeSuccess(requests, n) ==
    IF n = 0 \/ requests[1] = "ok" THEN 0
    ELSE 1 + FailuresBeforeSuccess(Tail(requests), n - 1)

\* C16: a failing fetch in MarketData.get_data is retried, with a delay of
\* backoff^attempt after each failed attempt, up to `retries` attempts before
\* get_data returns None; a fetch that fails fewer than `retries` times and then
\* succeeds returns the data; the live driver answers None by waiting one
\* interval and starting a new cycle.
C16_RetriedWithBackoff ==
    lastOp.op = "get_data" =>
        LET a == lastOp.args
            failures == FailuresBeforeSuccess(a.requests, a.retries)
        IN  /\ failures < a.retries =>
                  /\ a.value = Some("frame")
                  /\ a.attempts = failures + 1
            /\ failures = a.retries =>
                  /\ a.value = None
                  /\ a.attempts = a.retries
            /\ a.slept = [i \in 1..failures |-> Power(a.backoff, i - 1)]
            /\ a.value = None => a.driver = [sleep |-> 60, next |-> "new cycle"]

\* the call recorded in lastOp made again on the manager m
Redo(m) ==
    LET a == lastOp.args
    IN  CASE lastOp.op = "place_order" ->
                place_order(m, a.trade_date, a.action, a.price, a.stoploss,
                            a.strategy, a.lots, a.now)
          [] lastOp.op = "check_trailing_sl" -> check_trailing_sl(m, a.trade_date, a.price)
          [] lastOp.op = "exit_with_reason" -> exit_with_reason(m, a.price)
          [] lastOp.op = "exit_trade" -> exit_trade(m, a.price)

\* the manager without its record sink
InMemory(m) == [m EXCEPT !.db_handler = <<>>, !.sink = "up"]

\* C17: a failed record write during place_order, a stop update or an exit
\* raises nothing out of the call and leaves the manager in memory (position
\* fields, margins, orders sent) exactly as the same call leaves it when the
\* write succeeds.
C17_SinkFailureSwallowed ==
    (mode = "DB"
        /\ lastOp.op \in {"place_order", "check_trailing_sl", "exit_with_reason", "exit_trade"}
        /\ lastOp.pre.sink # "up") =>
        /\ ~tm.raised
        /\ InMemory(tm) = InMemory(Redo([lastOp.pre EXCEPT !.sink = "up"]))

\* C18: after an exit of an open trade the manager and the executor are FLAT
\* whatever the direction and the exit price (open_trade false, position
\* None), and a place_order that follows is handled as an open from FLAT: it
\* opens the requested position, unless the manager's same-zone guard drops it.
C18_FlatAfterExit ==
    /\ (mode = "TM" /\ lastOp.op \in {"exit_trade", "exit_with_reason"}
                    /\ lastOp.pre.open_trade) =>
          (~tm.open_trade /\ tm.position = "None")
    /\ (mode = "EX" /\ lastOp.op = "exit_trade" /\ lastOp.pre.state.open_trade) =>
          (~ex.state.open_trade /\ ex.state.position = "None")
    /\ (mode = "TM" /\ lastOp.op = "place_order" /\ lastOp.pre.uuid > 0
                    /\ lastOp.pre.position = "None") =>
          \/ tm.open_trade /\ tm.position = lastOp.args.action
                           /\ tm.uuid = lastOp.pre.uuid + 1
          \/ tm = lastOp.pre
                /\ SameZoneTooSoon(lastOp.pre, lastOp.args.trade_date, lastOp.args.price)
    /\ (mode = "EX" /\ lastOp.op = "place_order" /\ lastOp.pre.ids > 0
                    /\ lastOp.pre.state.position = "None") =>
          (ex.state.open_trade /\ ex.state.position = lastOp.args.action)

\* a second trade, in the other direction, is opened after the first was exited
C18_Witness ==
    /\ mode = "TM"
    /\ lastOp.op = "place_order"
    /\ lastOp.pre.uuid = 1
    /\ ~lastOp.pre.open_trade
    /\ IsSet(lastOp.pre.last_exit_price)
    /\ tm.open_trade
    /\ tm.uuid = 2
    /\ tm.position # tm.db_handler[1].type

C20_MalformedNeverOpens ==
    (/\ mode = "EN"
     /\ lastOp.op \in {"live_cycle", "replay_row"}
     /\ lastOp.args.result.valid
     /\ ~WellFormed(lastOp.args.result)) =>
        /\ lastOp.args.did # "place_order"
        /\ tm.uuid = lastOp.pre.uuid
        /\ ~tm.open_trade

\* C21: a trailing call applies a candidate stop only if it is strictly better
\* than the current stop for the trade's direction (BUY: higher, SELL: lower)
\* by at least 0.01; otherwise stop_loss is unchanged, nothing is recorded and
\* nothing is raised.  An applied update sets last_sl_update_time to the bar
\* time and appends exactly one SL record carrying the new stop.
C21_GuardedStopUpdate ==
    lastOp.op = "check_trailing_sl" =>
      /\ mode = "TM" =>
            IF tm.stop_loss # lastOp.pre.stop_loss
            THEN /\ lastOp.pre.position = "BUY" => tm.stop_loss - lastOp.pre.stop_loss >= 10
                 /\ lastOp.pre.position = "SELL" => lastOp.pre.stop_loss - tm.stop_loss >= 10
                 /\ tm.last_sl_update_time = Some(lastOp.args.trade_date)
                 /\ Len(tm.db_handler) = Len(lastOp.pre.db_handler) + 1
                 /\ SubSeq(tm.db_handler, 1, Len(lastOp.pre.db_handler)) = lastOp.pre.db_handler
                 /\ tm.db_handler[Len(tm.db_handler)].notes = "SL adjusted"
                 /\ tm.db_handler[Len(tm.db_handler)].sl = tm.stop_loss
                 /\ tm.db_handler[Len(tm.db_handler)].time = lastOp.args.trade_date
            ELSE /\ tm.db_handler = lastOp.pre.db_handler
                 /\ ~tm.raised
                 /\ tm = [lastOp.pre EXCEPT !.last_sl_update_time = tm.last_sl_update_time]
      /\ mode = "EX" =>
            IF ex.state.stop_loss # lastOp.pre.state.stop_loss
            THEN /\ lastOp.pre.state.position = "BUY" =>
                        ex.state.stop_loss - lastOp.pre.state.stop_loss >= 10
                 /\ lastOp.pre.state.position = "SELL" =>
                        lastOp.pre.state.stop_loss - ex.state.stop_loss >= 10
                 /\ ex.state.last_sl_update_time = Some(lastOp.args.trade_date)
                 /\ Len(ex.db) = Len(lastOp.pre.db) + 1
                 /\ SubSeq(ex.db, 1, Len(lastOp.pre.db)) = lastOp.pre.db
                 /\ ex.db[Len(ex.db)].notes = "SL Trailed"
                 /\ ex.db[Len(ex.db)].sl = ex.state.stop_loss
            ELSE ex = lastOp.pre

\* a SELL's stop is lowered by a trailing call and, on a later bar, a candidate
\* above the lowered stop is dropped without a record
C21_Witness ==
    /\ mode = "TM"
    /\ lastOp.op = "check_trailing_sl"
    /\ lastOp.pre.position = "SELL"
    /\ tm.stop_loss = lastOp.pre.stop_loss
    /\ tm.stop_loss < tm.db_handler[1].sl
    /\ tm.last_sl_update_time = Some(lastOp.args.trade_date)
    /\ lastOp.args.price + AtrTimesMultiplier(tm) > tm.stop_loss
    /\ tm.db_handler[Len(tm.db_handler)].notes = "SL adjusted"

\* C22: in the replay, on an in-session bar with a position held, the trailing
\* engine changes nothing when the trade age (bar timestamp minus the bar time
\* of the entry) is under 120 seconds, and otherwise leaves the stop that the
\* trailing rules give for a trade of that age.  The stop is read on bars that
\* do not close the position.
C22_TrailFromTwoMinutes ==
    (/\ mode = "BT"
     /\ lastOp.op = "row"
     /\ lastOp.pre.open_trade
     /\ ~out_of_session(lastOp.args.row)
     /\ ~lastOp.args.closed) =>
        LET pre == lastOp.pre
            row == lastOp.args.row
            age == row.date - Val(pre.trade_date)
            aged == check_trailing_sl([pre EXCEPT !.entry_time = pre.trade_date],
                                      row.date, row.close)
        IN  /\ age < 120 => tm.stop_loss = pre.stop_loss
            /\ age >= 120 => tm.stop_loss = aged.stop_loss

\* C23: near-target tightening wins first.  On a bar that passes the
\* 120-second age gate of TradeManager.check_trailing_sl with
\* |price - target| <= 0.5 * ATR, the only candidate is price - 10 for a BUY and
\* price + 10 for a SELL: the stop becomes that candidate (rounded) when it is
\* better than the current stop by 0.01 or more, with one record, and stays as
\* it was otherwise, with none; the directional trail has no effect on the bar.
C23_NearTargetFirst ==
    (/\ mode = "TM"
     /\ lastOp.op = "check_trailing_sl"
     /\ Seconds(lastOp.args.trade_date - Val(lastOp.pre.entry_time)) >= 120
     /\ 2 * Abs(lastOp.args.price - lastOp.pre.target_price) <= lastOp.pre.atr) =>
        LET pre == lastOp.pre
            tight == Round2(IF pre.position = "BUY" THEN lastOp.args.price - R(10)
                            ELSE lastOp.args.price + R(10))
            better == IF pre.position = "BUY" THEN tight - pre.stop_loss >= 10
                      ELSE pre.stop_loss - tight >= 10
        IN  /\ tm.stop_loss = IF better THEN tight ELSE pre.stop_loss
            /\ Len(tm.db_handler) = Len(pre.db_handler) + IF better THEN 1 ELSE 0
            /\ tm.last_sl_update_time = Some(lastOp.args.trade_date)

\* near the target of a SELL the stop is set to price + 10 where the
\* directional trail would have set price + ATR * multiplier
C23_Witness ==
    /\ mode = "TM"
    /\ lastOp.op = "check_trailing_sl"
    /\ lastOp.pre.position = "SELL"
    /\ Seconds(lastOp.args.trade_date - Val(lastOp.pre.entry_time)) >= 120
    /\ 2 * Abs(lastOp.args.price - lastOp.pre.target_price) <= lastOp.pre.atr
    /\ tm.stop_loss = lastOp.args.price + R(10)
    /\ tm.stop_loss # lastOp.pre.stop_loss
    /\ lastOp.args.price + AtrTimesMultiplier(lastOp.pre) < lastOp.pre.stop_loss
    /\ lastOp.args.price + AtrTimesMultiplier(lastOp.pre) # tm.stop_loss

\* C24: directional trail of the SLManager.  On a bar of age >= 120 s outside
\* the near-target band, nothing is updated when move < ATR (move = price -
\* entry for a BUY, entry - price for a SELL); otherwise the candidate is
\* primary = price -/+ 0.6 * ATR when that improves on the current stop, else
\* fallback = price -/+ (min(50, ATR) if age > 1800 s else ATR) when that
\* improves, else there is none.  The stop after the call is the candidate,
\* rounded, when the update guard admits it, and the old stop otherwise.
C24_DirectionalTrail ==
    (/\ mode = "SL"
     /\ lastOp.op = "check_and_update_sl"
     /\ lastOp.args.trade_date - Val(lastOp.pre.state.entry_time) >= 120
     /\ 4 * Abs(lastOp.args.price - lastOp.pre.state.target_price) > lastOp.pre.atr) =>
        LET pre == lastOp.pre.state
            atr == lastOp.pre.atr
            price == lastOp.args.price
            age == lastOp.args.trade_date - Val(pre.entry_time)
            buy == pre.position = "BUY"
            move == IF buy THEN price - pre.entry_price ELSE pre.entry_price - price
            gap == IF age > 1800 THEN Min(R(50), atr) ELSE atr
            primary == IF buy THEN price - (6 * atr) \div 10 ELSE price + (6 * atr) \div 10
            fallback == IF buy THEN price - gap ELSE price + gap
            improves(c) == IF buy THEN c > pre.stop_loss ELSE c < pre.stop_loss
            admitted(c) == IF buy THEN Round2(c) - pre.stop_loss >= 10
                           ELSE pre.stop_loss - Round2(c) >= 10
            stop == IF move < atr THEN pre.stop_loss
                    ELSE IF improves(primary)
                    THEN (IF admitted(primary) THEN Round2(primary) ELSE pre.stop_loss)
                    ELSE IF improves(fallback)
                    THEN (IF admitted(fallback) THEN Round2(fallback) ELSE pre.stop_loss)
                    ELSE pre.stop_loss
        IN  /\ ex.state.stop_loss = stop
            /\ Len(ex.db) = Len(lastOp.pre.db) + IF stop = pre.stop_loss THEN 0 ELSE 1

\* a BUY older than 1800 s with ATR 100: the primary candidate price - 60 does
\* not improve on the stop, the fallback price - 50 does and is applied
C24_Witness ==
    /\ mode = "SL"
    /\ lastOp.op = "check_and_update_sl"
    /\ lastOp.pre.state.position = "BUY"
    /\ lastOp.pre.atr = R(100)
    /\ lastOp.args.trade_date - Val(lastOp.pre.state.entry_time) > 1800
    /\ 4 * Abs(lastOp.args.price - lastOp.pre.state.target_price) > lastOp.pre.atr
    /\ lastOp.args.price - R(60) <= lastOp.pre.state.stop_loss
    /\ ex.state.stop_loss = lastOp.args.price - R(50)
    /\ ex.state.stop_loss > lastOp.pre.state.stop_loss

\* C25: stop rule.  Past the 60-second gate (or with no trade_time given),
\* should_exit_price returns exit = true iff the position is BUY and
\* price <= stop_loss, or the position is SELL and price >= stop_loss; so a bar
\* that reaches the target without breaching the stop never returns exit =
\* true.  Bars have low <= price <= high.
C25_StopRule ==
    (/\ mode = "XP"
     /\ lastOp.op = "should_exit_price"
     /\ \/ ~IsSet(lastOp.args.trade_time)
        \/ Seconds(Val(lastOp.args.trade_time) - Val(lastOp.pre.entry_time)) >= 60) =>
        LET pre == lastOp.pre
            price == lastOp.args.price
            breached == \/ pre.position = "BUY" /\ price <= pre.stop_loss
                        \/ pre.position = "SELL" /\ price >= pre.stop_loss
            at_target == \/ pre.position = "BUY" /\ lastOp.args.high >= pre.target_price
                         \/ pre.position = "SELL" /\ lastOp.args.low <= pre.target_price
        IN  /\ lastOp.args.verdict.exit <=> breached
            /\ (at_target /\ ~breached) => ~lastOp.args.verdict.exit

\* a bar whose close is past the target of a BUY, with the stop below: no exit
C25_Witness ==
    /\ mode = "XP"
    /\ lastOp.op = "should_exit_price"
    /\ lastOp.pre.position = "BUY"
    /\ lastOp.args.trade_time = Some(T0 + 300)
    /\ lastOp.args.price >= lastOp.pre.target_price
    /\ lastOp.args.low <= lastOp.pre.target_price
    /\ lastOp.pre.stop_loss > lastOp.pre.db_handler[1].sl
    /\ ~lastOp.args.verdict.exit
    /\ lastOp.args.verdict.reason = "Profit zone"

\* C26: in the live monitor, on a bar dated less than 60 seconds after the
\* entry, an open position is not closed by the stop check, the target check,
\* the profit-stall check or the sideways-stall check: unless the session
\* cutoff closes it, it is still open after the pass.
C26_FirstMinuteExempt ==
    (/\ mode = "LV"
     /\ lastOp.op = "bar"
     /\ lastOp.pre.open_trade
     /\ lastOp.args.did \notin {"no data", "cutoff"}) =>
        LET age == lastOp.args.bar.date - Val(lastOp.pre.entry_time)
        IN  (0 <= age /\ age < 60) => tm.open_trade

\* C27: the live monitor evaluates its exit checks in the priority order
\* cutoff, stop hit, profit-stall, sideways-stall.  On a pass that reaches the
\* checks, the exit is attributed to the first condition of that order that
\* holds, and the position is closed by exactly one exit record.
C27_ExitPriority ==
    (/\ mode = "LV"
     /\ lastOp.op = "bar"
     /\ lastOp.pre.open_trade
     /\ lastOp.args.did \notin {"no data", "settle"}) =>
        LET bar == lastOp.args.bar
            m == [lastOp.pre EXCEPT !.atr = IF bar.ATR # 0 THEN bar.ATR ELSE @]
            cutoff == reached_cutoff_time(bar.date + PollDelay)
            stop == \/ m.position = "BUY" /\ Round2(bar.close) <= m.stop_loss
                    \/ m.position = "SELL" /\ Round2(bar.close) >= m.stop_loss
            stop_hit == stop /\ Seconds(bar.date - Val(m.entry_time)) >= 60
            profit == _check_stall_exit(m, feed)
            sideways == _check_sideways_stall_exit(m, feed)
            first == IF cutoff THEN "cutoff"
                     ELSE IF stop_hit THEN "Stop-loss hit."
                     ELSE IF profit THEN "stall"
                     ELSE IF sideways THEN "sideways stall"
                     ELSE "trail"
        IN  /\ lastOp.args.did = first
            /\ first # "trail" =>
                  /\ ~tm.open_trade
                  /\ Len(tm.db_handler) = Len(lastOp.pre.db_handler) + 1
                  /\ tm.db_handler[Len(tm.db_handler)].exited

\* C28: in Backtester.run, on an in-session bar with a position open whose
\* close breaches the stop as that bar's trailing update left it (BUY: close <=
\* stop_loss, SELL: close >= stop_loss), the position is closed on that bar
\* with an exit record at the close price; and a trailing update never moves
\* the stop to or past the bar's close.
C28_StopHitClosesOnBar ==
    (/\ mode = "BT"
     /\ lastOp.op = "row"
     /\ lastOp.pre.open_trade
     /\ ~out_of_session(lastOp.args.row)) =>
        LET pre == lastOp.pre
            row == lastOp.args.row
            trailed == check_trailing_sl(pre, row.date, row.close)
            breached == \/ pre.position = "BUY" /\ row.close <= trailed.stop_loss
                        \/ pre.position = "SELL" /\ row.close >= trailed.stop_loss
            news == { i \in DOMAIN tm.db_handler : i > Len(pre.db_handler) }
        IN  /\ breached =>
                  /\ lastOp.args.closed
                  /\ \E i \in news :
                        /\ tm.db_handler[i].exited
                        /\ tm.db_handler[i].trade_id = pre.current_trade_id
                        /\ tm.db_handler[i].exitprice = Round2(row.close)
            /\ trailed.stop_loss # pre.stop_loss =>
                  /\ pre.position = "BUY" => trailed.stop_loss < row.close
                  /\ pre.position = "SELL" => trailed.stop_loss > row.close
                  /\ \E i \in news : /\ tm.db_handler[i].notes = "SL adjusted"
                                     /\ tm.db_handler[i].sl = trailed.stop_loss

\* the close of a bar before 15:25 falls to the stop a trailing update had
\* raised on an earlier bar, and the BUY is closed on that bar
C28_Witness ==
    /\ mode = "BT"
    /\ lastOp.op = "row"
    /\ lastOp.pre.position = "BUY"
    /\ TimeOfDay(lastOp.args.row.date) < SessionEnd
    /\ lastOp.args.row.close <= lastOp.pre.stop_loss
    /\ lastOp.pre.stop_loss > lastOp.pre.db_handler[1].sl
    /\ lastOp.args.closed
    /\ IsSet(tm.last_exit_price)

\* C29: Backtester.run calls place_order only on bars where the manager is
\* FLAT and in_cooldown(bar time) is false; a bar opens at most one position
\* and at most one position is open at any time (of the trades recorded as
\* placed, at most one has no exit record, and it is the position held).
C29_EntryOnlyWhenFlat ==
    (mode = "BT" /\ lastOp.op = "row") =>
        LET pre == lastOp.pre
            row == lastOp.args.row
            placed == { tm.db_handler[i].trade_id :
                          i \in { j \in DOMAIN tm.db_handler :
                                    tm.db_handler[j].notes = "Order placed" } }
            exited == { tm.db_handler[i].trade_id :
                          i \in { j \in DOMAIN tm.db_handler : tm.db_handler[j].exited } }
        IN  /\ lastOp.args.opened =>
                  /\ ~out_of_session(row)
                  /\ ~pre.open_trade \/ lastOp.args.closed
                  /\ ~in_cooldown(tm, Some(row.date), 0)
                  /\ tm.uuid = pre.uuid + 1
                  /\ tm.open_trade
            /\ ~lastOp.args.opened => tm.uuid = pre.uuid
            /\ placed \ exited = IF tm.open_trade THEN {tm.current_trade_id} ELSE {}

\* a second position is opened on a bar 15 minutes or more after the time the
\* cooldown counts from
C29_Witness ==
    /\ mode = "BT"
    /\ lastOp.op = "row"
    /\ lastOp.args.opened
    /\ tm.uuid = 2
    /\ IsSet(tm.last_exit_time)
    /\ lastOp.args.row.date - Val(tm.last_exit_time) >= CooldownSeconds

\* C30: Backtester.run changes no trade state on a bar whose time is before
\* 09:30 or after 15:25: the manager is exactly as before the bar (no open, no
\* stop-loss update, no exit, no record); the strategy is not asked.
C30_OutOfSessionNoOp ==
    (/\ mode = "BT"
     /\ lastOp.op = "row"
     /\ \/ TimeOfDay(lastOp.args.row.date) < (9 * 60 + 30) * 60
        \/ TimeOfDay(lastOp.args.row.date) > (15 * 60 + 25) * 60) =>
        /\ tm = lastOp.pre
        /\ ~lastOp.args.opened
        /\ ~lastOp.args.closed

\* the 15:30 bar closes beyond the stop of a position that is held: it is not
\* exited
C30_Witness ==
    /\ mode = "BT"
    /\ lastOp.op = "row"
    /\ TimeOfDay(lastOp.args.row.date) > (15 * 60 + 25) * 60
    /\ tm.open_trade
    /\ \/ tm.position = "BUY" /\ lastOp.args.row.close <= tm.stop_loss
       \/ tm.position = "SELL" /\ lastOp.args.row.close >= tm.stop_loss

MomentumPasses(a) == is_momentum_confirmed(a.df, 3, a.result.signal)

WeakCandlePasses(a) ==
    ~(/\ IsSet(a.last_exit_time)
      /\ is_initial_weak_candle(a.row, a.row.date, Val(a.last_exit_time)))

SameZonePasses(a) ==
    ~is_same_zone_reentry(a.result.entry, a.last_exit_price, a.last_exit_time,
                          a.row.ATR, a.row.date)

PullbackPasses(a) ==
    \/ ~IsSet(a.last_exit_price)
    \/ is_reentry_after_pullback(a.result.entry, a.last_exit_price, a.result.signal,
                                 a.row.ATR)

\* the orders in which the four checks can be evaluated
FilterOrders ==
    { order \in [1..4 -> { FilterOrder[i] : i \in 1..4 }] :
          \A i, j \in 1..4 : order[i] = order[j] => i = j }

\* C32: decide_trade_from_row leaves a valid proposal valid iff the momentum,
\* weak-candle, same-zone and pullback checks all pass, and the checks taken
\* in any other order accept and reject the same proposals.
C32_AdmissionConjunction ==
    (lastOp.op = "decide_trade_from_row" /\ lastOp.args.result.valid) =>
        /\ lastOp.args.out.valid <=>
              /\ MomentumPasses(lastOp.args)
              /\ WeakCandlePasses(lastOp.args)
              /\ SameZonePasses(lastOp.args)
              /\ PullbackPasses(lastOp.args)
        /\ \A order \in FilterOrders :
              decide_in_order(MarketData(None), order, lastOp.args.df, 3, lastOp.args.row,
                              lastOp.args.result).valid = lastOp.args.out.valid

\* C33: after an exit a BUY passes the pullback check iff its entry is at
\* least 0.5 ATR above the last exit price, a SELL iff at least 0.5 ATR below.
C33_PullbackRule ==
    (lastOp.op = "is_reentry_after_pullback" /\ IsSet(lastOp.args.last_exit_price)) =>
        (lastOp.args.result <=>
            IF lastOp.args.direction = "BUY"
            THEN 2 * lastOp.args.price >= 2 * Val(lastOp.args.last_exit_price) + lastOp.args.atr
            ELSE 2 * lastOp.args.price <= 2 * Val(lastOp.args.last_exit_price) - lastOp.args.atr)

\* twice the median of a non-empty sequence: its two middle values, or its
\* middle value twice, when sorted
TwiceMedian(s) == Sorted(s)[(Len(s) + 1) \div 2] + Sorted(s)[Len(s) \div 2 + 1]

\* ten times the target of an order at entry, for the ATR in force and the
\* ATR values recorded at entries, this one included
TenTargets(action, entry, atr, history) ==
    LET m == IF 2 * atr < TwiceMedian(history) THEN 18 ELSE 25
    IN  IF action = "BUY" THEN 10 * entry + m * atr ELSE 10 * entry - m * atr

\* C34: an accepted order's target is entry + m ATR for a BUY and entry - m ATR
\* for a SELL, m being 1.8 when the ATR is below the median of the ATR values
\* recorded at entries and 2.5 otherwise (the ATR is 20 when the driver gave
\* none); while a trade is open, the target is above the entry of a BUY and
\* below the entry of a SELL.
C34_DynamicTarget ==
    /\ (lastOp.op = "place_order" /\ ~lastOp.pre.tm.open_trade /\ tm.open_trade) =>
          LET atr == IF lastOp.pre.tm.atr = 0 THEN R(20) ELSE lastOp.pre.tm.atr
          IN  /\ tm.atr_history = Append(lastOp.pre.tm.atr_history, atr)
              /\ 10 * tm.target_price =
                    TenTargets(lastOp.args.action, tm.entry_price, atr, tm.atr_history)
    /\ (lastOp.op = "place_order" /\ ~lastOp.pre.ex.state.open_trade
                                 /\ ex.state.open_trade) =>
          LET atr == IF lastOp.pre.ex.atr = 0 THEN R(20) ELSE lastOp.pre.ex.atr
          IN  /\ ex.atr_history = Append(lastOp.pre.ex.atr_history, atr)
              /\ 10 * ex.state.target_price =
                    TenTargets(lastOp.args.action, ex.state.entry_price, atr,
                               ex.atr_history)
    /\ tm.open_trade =>
          IF tm.position = "BUY" THEN tm.target_price > tm.entry_price
          ELSE tm.target_price < tm.entry_price
    /\ ex.state.open_trade =>
          IF ex.state.position = "BUY" THEN ex.state.target_price > ex.state.entry_price
          ELSE ex.state.target_price < ex.state.entry_price

\* a SELL is opened at an ATR of 20 after one entry at 40: the ATR is below
\* the median of 40 and 20, and the target lies 1.8 x 20 = 36 below the entry
C34_Witness ==
    /\ mode = "TG"
    /\ lastOp.op = "place_order"
    /\ ~lastOp.pre.tm.open_trade
    /\ tm.open_trade /\ ex.state.open_trade
    /\ tm.position = "SELL"
    /\ lastOp.pre.tm.atr_history = <<R(40)>>
    /\ lastOp.pre.tm.atr = R(20)
    /\ tm.target_price = tm.entry_price - R(36)
    /\ ex.state.target_price = tm.target_price

\* C35: _check_sideways_stall_exit signals an exit iff the frame has at least
\* 6 bars, the closes of its last 6 bars lie within less than 15 of each
\* other, and the position is not a BUY whose current price is 0.5 ATR or more
\* above the entry.
C35_SidewaysStall ==
    lastOp.op = "_check_sideways_stall_exit" =>
        LET frame == lastOp.args.frame
            n == Len(frame)
        IN  lastOp.args.result <=>
               /\ n >= 6
               /\ \A i, j \in (n - 5)..n : frame[i].close - frame[j].close < R(15)
               /\ ~(/\ lastOp.pre.position = "BUY"
                    /\ 2 * (frame[n].close - lastOp.pre.entry_price) >= lastOp.pre.atr)

\* C36: in Backtester.run the manager is FLAT once the 15:25 bar of a day has
\* been processed: the position held is closed on that bar and none is
\* opened on it, so that none is carried to the next day's first bar.
C36_IntradayOnly ==
    (/\ mode = "BT"
     /\ lastOp.op = "row"
     /\ TimeOfDay(lastOp.args.row.date) = SessionEnd) => ~tm.open_trade

\* the sum of the pnl fields of the exited records
RECURSIVE ExitedPnl(_)
ExitedPnl(records) ==
    IF records = <<>> THEN 0
    ELSE (IF Head(records).exited THEN Head(records).pnl ELSE 0) + ExitedPnl(Tail(records))

\* the exited records among records
ExitedRecords(records) == {i \in DOMAIN records : records[i].exited}

\* C37: margins changes only on the exit of an open trade and by that trade's
\* pnl.  Every call of place_order, check_trailing_sl, exit_trade or
\* exit_with_reason leaves margins minus the sum of pnl over the exited
\* records as it was (so margins is the initial margins plus that sum, the
\* records being empty at first), changes margins only if a trade was open
\* and the call was an exit, and no two exited records carry one trade id.
C37_MarginsLedger ==
    /\ (mode = "TM" /\ lastOp.op \in {"place_order", "check_trailing_sl", "exit_trade",
                                       "exit_with_reason"}) =>
          /\ tm.margins - ExitedPnl(tm.db_handler)
                = lastOp.pre.margins - ExitedPnl(lastOp.pre.db_handler)
          /\ tm.margins # lastOp.pre.margins =>
                /\ lastOp.op \in {"exit_trade", "exit_with_reason"}
                /\ lastOp.pre.open_trade
          /\ \A i, j \in ExitedRecords(tm.db_handler) :
                tm.db_handler[i].trade_id = tm.db_handler[j].trade_id => i = j
    /\ (mode = "EX" /\ lastOp.op \in {"place_order", "check_trailing_sl", "exit_trade"}) =>
          /\ ex.margins - ExitedPnl(ex.db) = lastOp.pre.margins - ExitedPnl(lastOp.pre.db)
          /\ ex.margins # lastOp.pre.margins =>
                /\ lastOp.op = "exit_trade"
                /\ lastOp.pre.state.open_trade
          /\ \A i, j \in ExitedRecords(ex.db) :
                ex.db[i].trade_id = ex.db[j].trade_id => i = j

\* C38: a trailing call whose candidate stop is dropped (not better than the
\* current stop, or within 0.01 of it) leaves the whole position state as it
\* was, last_sl_update_time included: a pass of the live monitor that ends in
\* the trailing call and leaves the stop where it was changes nothing but the
\* ATR read from the bar, and a pass skips its exit checks to let the stop
\* settle only if a stop update was recorded for that bar.
C38_DroppedCandidateNoEffect ==
    (mode = "LV" /\ lastOp.op \in {"bar", "poll"} /\ lastOp.args.did # "no data") =>
      LET bar == lastOp.args.bar
      IN  /\ (lastOp.args.did = "trail" /\ tm.stop_loss = lastOp.pre.stop_loss) =>
                 tm = [lastOp.pre EXCEPT !.atr = tm.atr]
          /\ lastOp.args.did = "settle" =>
                 \E i \in DOMAIN tm.db_handler :
                    /\ tm.db_handler[i].notes = "SL adjusted"
                    /\ tm.db_handler[i].time = bar.date

\* the record that opened the trade a later record belongs to: the latest
\* "Order placed" record at or before i (0 if there is none)
RECURSIVE OpenedAt(_, _)
OpenedAt(records, i) ==
    IF i = 0 THEN 0
    ELSE IF records[i].notes = "Order placed" THEN i
    ELSE OpenedAt(records, i - 1)

\* C39: every record persisted by the TradeManager for a trade carries that
\* trade's id.  Each record has a trade_id that is not null; an "Order placed"
\* record has an id no earlier record has; every other record has the id of
\* the "Order placed" record it follows; and no record after an exited record
\* has the exited record's id.
C39_RecordsCarryTradeId ==
    mode = "TM" =>
      LET records == tm.db_handler
      IN  \A i \in DOMAIN records :
            /\ IsSet(records[i].trade_id)
            /\ IF records[i].notes = "Order placed"
               THEN \A j \in 1..(i - 1) : records[j].trade_id # records[i].trade_id
               ELSE /\ OpenedAt(records, i) # 0
                    /\ records[i].trade_id = records[OpenedAt(records, i)].trade_id
            /\ records[i].exited =>
                  \A j \in (i + 1)..Len(records) : records[j].trade_id # records[i].trade_id

\* the stop is hit on the row, as the row's trailing update left the stop
StopHitOnRow(pre, row) ==
    LET trailed == check_trailing_sl(pre, row.date, row.close)
    IN  \/ pre.position = "BUY" /\ row.close <= trailed.stop_loss
        \/ pre.position = "SELL" /\ row.close >= trailed.stop_loss

\* C40: in Backtester.run, when the stop of the open trade is hit on the
\* 15:25 bar, the trade is exited exactly once on that bar: among the records
\* the bar adds exactly one is an exited record, it carries the trade's id and
\* the bar's close, margins has moved by that record's pnl and by nothing
\* else, the manager has raised nothing, and the trade is closed.
C40_OneExitAtCutoff ==
    (/\ mode = "BT"
     /\ lastOp.op = "row"
     /\ lastOp.pre.open_trade
     /\ TimeOfDay(lastOp.args.row.date) = SessionEnd
     /\ StopHitOnRow(lastOp.pre, lastOp.args.row)) =>
        LET pre == lastOp.pre
            row == lastOp.args.row
            exits == { i \in DOMAIN tm.db_handler :
                          i > Len(pre.db_handler) /\ tm.db_handler[i].exited }
        IN  /\ Cardinality(exits) = 1
            /\ \A i \in exits :
                  /\ tm.db_handler[i].trade_id = pre.current_trade_id
                  /\ tm.db_handler[i].exitprice = Round2(row.close)
                  /\ tm.margins = pre.margins + tm.db_handler[i].pnl
                  /\ tm.db_handler[i].pnl =
                        Round2((IF pre.position = "BUY" THEN row.close - pre.entry_price
                                ELSE pre.entry_price - row.close) * TRADE_QTY * pre.lots
                               - charges(pre.position))
            /\ lastOp.args.closed
            /\ ~tm.raised
            /\ tm.last_exit_price = Some(row.close)

\* a BUY is open at the 15:25 bar, whose close is at or under the stop; the
\* bar closes the trade and no new one is opened on it
C40_Witness ==
    /\ mode = "BT"
    /\ lastOp.op = "row"
    /\ lastOp.pre.open_trade
    /\ lastOp.pre.position = "BUY"
    /\ TimeOfDay(lastOp.args.row.date) = SessionEnd
    /\ StopHitOnRow(lastOp.pre, lastOp.args.row)
    /\ ~tm.open_trade
    /\ tm.margins # lastOp.pre.margins
    /\ tm.db_handler[Len(tm.db_handler)].exited

====
